---------------------------- MODULE Spec2Model ----------------------------
(***************************************************************************)
(* A model of go-nfctype4: the Reader Device procedures (Detect, Read,     *)
(* Update, Format), the Commander, the APDU and Capability Container       *)
(* codecs, the software-tag transport and the static Tag's command         *)
(* dispatcher.  Bytes are the integers 0..255 and every byte string is a   *)
(* sequence of bytes, so that what crosses the transport is the marshalled *)
(* form and each side works on what it unmarshals.                         *)
(***************************************************************************)
EXTENDS Integers, Sequences, FiniteSets, TLC

(***************************************************************************)
(* Go slices: s[lo:hi] with 0-based lo (inclusive) and hi (exclusive).     *)
(***************************************************************************)
Slice(s, lo, hi) == SubSeq(s, lo + 1, hi)

Min(a, b) == IF a < b THEN a ELSE b

\* The nil error.
Nil == "nil"

-----------------------------------------------------------------------------
(* helpers/helpers.go *)

\* BytesToUint16: big-endian value of a 2-byte array.
BytesToUint16(field) == field[1] * 256 + field[2]

\* Uint16ToBytes: byte(value >> 8), byte(0x00ff & value) of a uint16.
Uint16ToBytes(value) == << (value % 65536) \div 256, value % 256 >>

-----------------------------------------------------------------------------
(* apdu/capdu.go : the Command APDU *)

INSSelect == 164     \* 0xA4
INSRead   == 176     \* 0xB0
INSUpdate == 214     \* 0xD6

\* CAPDU.Reset: the zero CAPDU.
CAPDUReset ==
    [CLA |-> 0, INS |-> 0, P1 |-> 0, P2 |-> 0,
     Lc |-> << >>, Data |-> << >>, Le |-> << >>]

GetLc(apdu) ==
    CASE Len(apdu.Lc) = 0 -> 0
      [] Len(apdu.Lc) = 1 -> apdu.Lc[1]
      [] Len(apdu.Lc) = 3 -> BytesToUint16(<< apdu.Lc[2], apdu.Lc[3] >>)
      [] OTHER -> 0

SetLc(apdu, n) ==
    IF n = 0 THEN [apdu EXCEPT !.Lc = << >>]
    ELSE IF 1 <= n /\ n <= 255 THEN [apdu EXCEPT !.Lc = << n >>]
    ELSE [apdu EXCEPT !.Lc = << 0 >> \o Uint16ToBytes(n)]

GetLe(apdu) ==
    CASE Len(apdu.Le) = 0 -> 0
      [] Len(apdu.Le) = 1 -> IF apdu.Le[1] = 0 THEN 256 ELSE apdu.Le[1]
      [] Len(apdu.Le) = 2 ->
            IF apdu.Le[1] = 0 /\ apdu.Le[2] = 0 THEN 65535
            ELSE BytesToUint16(<< apdu.Le[1], apdu.Le[2] >>)
      [] Len(apdu.Le) = 3 -> BytesToUint16(<< apdu.Le[2], apdu.Le[3] >>)
      [] OTHER -> 0

SetLe(apdu, n) ==
    IF n = 0 THEN [apdu EXCEPT !.Le = << >>]
    ELSE IF 1 <= n /\ n <= 255 THEN [apdu EXCEPT !.Le = << n >>]
    ELSE IF n = 256 THEN [apdu EXCEPT !.Le = << 0 >>]
    ELSE IF Len(apdu.Lc) > 0 THEN [apdu EXCEPT !.Le = Uint16ToBytes(n)]
    ELSE [apdu EXCEPT !.Le = << 0 >> \o Uint16ToBytes(n)]

\* CAPDU.check: the first error found, or Nil.
CAPDUCheckLc(lc) ==
    CASE Len(lc) = 1 /\ lc[1] = 0 -> "CAPDU.Check: APDU Lc with 1 byte cannot be 0"
      [] Len(lc) = 2 -> "CAPDU.Check: APDU Lc cannot have 2 bytes"
      [] Len(lc) = 3 /\ lc[1] # 0 -> "CAPDU.Check: APDU 3-byte-Lc's first byte must be 0"
      [] Len(lc) = 3 /\ lc[1] = 0 /\ lc[2] = 0 /\ lc[3] = 0 ->
            "CAPDU.Check: APDU 3-byte-Lc cannot be all 0s"
      [] Len(lc) > 3 -> "CAPDU.Check: APDU Lc cannot have more than 3"
      [] OTHER -> Nil

CAPDUCheckLe(lc, le) ==
    CASE Len(le) = 2 /\ Len(lc) = 0 -> "CAPDU.Check: APDU 2-byte-Le needs Lc present"
      [] Len(le) = 3 /\ Len(lc) # 0 ->
            "CAPDU.Check: APDU 3-byte-Le is only compatible with empty Lc"
      [] Len(le) = 3 /\ Len(lc) = 0 /\ le[1] # 0 ->
            "CAPDU.Check: APDU 3-byte-Le's first byte must be 0"
      [] Len(le) > 3 -> "CAPDU.Check: APDU Le cannot have more 3 bytes"
      [] OTHER -> Nil

\* Not the whole check: the Lc value is not compared with the data length.
CAPDUCheckShapesOnly(apdu) ==
    IF CAPDUCheckLc(apdu.Lc) # Nil THEN CAPDUCheckLc(apdu.Lc)
    ELSE CAPDUCheckLe(apdu.Lc, apdu.Le)

CAPDUCheck(apdu) ==
    IF CAPDUCheckLc(apdu.Lc) # Nil THEN CAPDUCheckLc(apdu.Lc)
    ELSE IF CAPDUCheckLe(apdu.Lc, apdu.Le) # Nil THEN CAPDUCheckLe(apdu.Lc, apdu.Le)
    ELSE IF GetLc(apdu) # Len(apdu.Data)
         THEN "CAPDU.Check: APDU Lc value is differs from the actual data length"
    ELSE Nil

\* CAPDU.Marshal: header, Lc, Data, Le, unless check fails.
CAPDUMarshal(apdu) ==
    IF CAPDUCheck(apdu) # Nil
    THEN [err |-> CAPDUCheck(apdu), bytes |-> << >>]
    ELSE [err |-> Nil,
          bytes |-> << apdu.CLA, apdu.INS, apdu.P1, apdu.P2 >>
                    \o apdu.Lc \o apdu.Data \o apdu.Le]

\* CAPDU.Unmarshal: the seven body cases of ISO 7816-4 table 5, in the order of
\* the switch; a body that matches none leaves Lc, Data and Le empty.
CAPDUUnmarshalBody(hdr, buf) ==
    LET bodyLen == Len(buf) - 4
        b1 == IF bodyLen > 0 THEN buf[5] ELSE 0
        b2 == IF bodyLen > 1 THEN buf[6] ELSE 0
        b3 == IF bodyLen > 2 THEN buf[7] ELSE 0
        ext == BytesToUint16(<< b2, b3 >>)
    IN  CASE bodyLen = 0 -> [apdu |-> hdr, n |-> 4]
          [] bodyLen = 1 -> [apdu |-> [hdr EXCEPT !.Le = << b1 >>], n |-> 4]
          [] bodyLen # 0 /\ bodyLen # 1 /\ bodyLen = 1 + b1 /\ b1 # 0 ->
                [apdu |-> [hdr EXCEPT !.Lc = << b1 >>,
                                      !.Data = Slice(buf, 5, 5 + b1)],
                 n |-> 5 + b1]
          [] bodyLen # 0 /\ bodyLen # 1 /\ bodyLen = 2 + b1 /\ b1 # 0 ->
                [apdu |-> [hdr EXCEPT !.Lc = << b1 >>,
                                      !.Data = Slice(buf, 5, 5 + b1),
                                      !.Le = << buf[5 + b1 + 1] >>],
                 n |-> 6 + b1]
          [] bodyLen = 3 /\ b1 = 0 ->
                [apdu |-> [hdr EXCEPT !.Le = << b1, b2, b3 >>], n |-> 7]
          [] bodyLen > 3 /\ bodyLen = 3 + ext /\ b1 = 0 /\ ext # 0 ->
                [apdu |-> [hdr EXCEPT !.Lc = << b1, b2, b3 >>,
                                      !.Data = Slice(buf, 7, 7 + ext)],
                 n |-> 7 + ext]
          [] bodyLen > 3 /\ bodyLen = 5 + ext /\ b1 = 0 /\ ext # 0 ->
                [apdu |-> [hdr EXCEPT !.Lc = << b1, b2, b3 >>,
                                      !.Data = Slice(buf, 7, 7 + ext),
                                      !.Le = << buf[7 + ext + 1], buf[7 + ext + 2] >>],
                 n |-> 9 + ext]
          [] OTHER -> [apdu |-> hdr, n |-> 4]

CAPDUUnmarshal(buf) ==
    IF Len(buf) < 4
    THEN [err |-> "CAPDU.Unmarshal: not enough bytes", n |-> 0, apdu |-> CAPDUReset]
    ELSE LET hdr == [CAPDUReset EXCEPT !.CLA = buf[1], !.INS = buf[2],
                                        !.P1 = buf[3], !.P2 = buf[4]]
             r == CAPDUUnmarshalBody(hdr, buf)
         IN  [err |-> CAPDUCheck(r.apdu), n |-> r.n, apdu |-> r.apdu]

\* The NDEF application name, D2 76 00 00 85 01 01.
NDEFAppName == << 210, 118, 0, 0, 133, 1, 1 >>

NewNDEFTagApplicationSelectAPDU ==
    SetLe(SetLc([CAPDUReset EXCEPT !.INS = 164, !.P1 = 4, !.P2 = 0,
                                   !.Data = NDEFAppName], 7), 256)

NewReadBinaryAPDU(offset, length) ==
    SetLe([CAPDUReset EXCEPT !.INS = 176,
                             !.P1 = Uint16ToBytes(offset)[1],
                             !.P2 = Uint16ToBytes(offset)[2]], length)

NewSelectAPDU(fileID) ==
    SetLc([CAPDUReset EXCEPT !.INS = 164, !.P1 = 0, !.P2 = 12,
                             !.Data = Uint16ToBytes(fileID)], 2)

\* NewUpdateBinaryAPDU(data, offset): the constructor Commander.UpdateBinary calls.
NewUpdateBinaryAPDU(data, offset) ==
    SetLc([CAPDUReset EXCEPT !.INS = 214,
                             !.P1 = Uint16ToBytes(offset)[1],
                             !.P2 = Uint16ToBytes(offset)[2],
                             !.Data = data], Len(data) % 65536)

-----------------------------------------------------------------------------
(* apdu/rapdu.go : the Response APDU *)

\* Not the trailer of Marshal: SW2 is written before SW1.
RAPDUMarshalSwapped(rapdu) == rapdu.ResponseBody \o << rapdu.SW2, rapdu.SW1 >>

RAPDUMarshal(rapdu) == rapdu.ResponseBody \o << rapdu.SW1, rapdu.SW2 >>

RAPDUUnmarshal(buf) ==
    IF Len(buf) - 2 < 0
    THEN [err |-> "RAPDU.Unmarshal: Not enough data to parse response",
          rapdu |-> [ResponseBody |-> << >>, SW1 |-> 0, SW2 |-> 0]]
    ELSE [err |-> Nil,
          rapdu |-> [ResponseBody |-> Slice(buf, 0, Len(buf) - 2),
                     SW1 |-> buf[Len(buf) - 1], SW2 |-> buf[Len(buf)]]]

CommandCompleted(rapdu) == rapdu.SW1 = 144 /\ rapdu.SW2 = 0
FileNotFound(rapdu) == rapdu.SW1 = 106 /\ rapdu.SW2 = 130

RAPDUCommandCompleted  == [ResponseBody |-> << >>, SW1 |-> 144, SW2 |-> 0]
RAPDUCommandNotAllowed == [ResponseBody |-> << >>, SW1 |-> 105, SW2 |-> 0]
RAPDUFileNotFound      == [ResponseBody |-> << >>, SW1 |-> 106, SW2 |-> 130]
RAPDUInactiveState     == [ResponseBody |-> << >>, SW1 |-> 105, SW2 |-> 1]
RAPDULcInconsistent    == [ResponseBody |-> << >>, SW1 |-> 106, SW2 |-> 135]

-----------------------------------------------------------------------------
(* capabilitycontainer/tlv.go : TLV blocks and Control TLVs *)

TypeNDEFFileControlTLV       == 4
TypePropietaryFileControlTLV == 5

\* TLV.check: L must be the length of V.
TLVCheck(tlv) ==
    IF tlv.L # Len(tlv.V)
    THEN "TLV.check: L[ength] does not match the V[alue] length"
    ELSE Nil

\* TLV.Unmarshal.  helpers.GetByte / GetBytes panic when the buffer runs out and
\* HandleErrorPanic turns the panic into the returned error.
TLVUnmarshal(buf) ==
    LET none == [T |-> 0, L |-> 0, V |-> << >>]
        eod  == "TLV.Unmarshal: Unexpected end of data"
    IN  IF Len(buf) = 0 THEN [err |-> eod, n |-> 0, tlv |-> none]
        ELSE IF Len(buf) = 1
        THEN [err |-> Nil, n |-> 1, tlv |-> [T |-> buf[1], L |-> 0, V |-> << >>]]
        ELSE LET l0  == buf[2]
                 hdr == IF l0 = 255 THEN 4 ELSE 2
             IN  IF Len(buf) < hdr THEN [err |-> eod, n |-> 0, tlv |-> none]
                 ELSE LET L == IF l0 = 255
                               THEN BytesToUint16(<< buf[3], buf[4] >>)
                               ELSE l0
                      IN  IF Len(buf) - hdr < L
                          THEN [err |-> eod, n |-> 0, tlv |-> none]
                          ELSE LET tlv == [T |-> buf[1], L |-> L,
                                           V |-> Slice(buf, hdr, hdr + L)]
                               IN  [err |-> IF TLVCheck(tlv) # Nil THEN TLVCheck(tlv)
                                            ELSE IF L < 255 /\ l0 = 255
                                            THEN "TLV.Unmarshal: 3-byte length used for a value < 0xFF"
                                            ELSE Nil,
                                    n |-> hdr + L, tlv |-> tlv]

\* TLV.Marshal: T, then L in 1 byte, or 0xFF and 2 bytes when L >= 0xFF, then V.
TLVMarshal(tlv) ==
    IF TLVCheck(tlv) # Nil THEN [err |-> TLVCheck(tlv), bytes |-> << >>]
    ELSE [err |-> Nil,
          bytes |-> << tlv.T >>
                    \o (IF tlv.L >= 255 THEN << 255 >> \o Uint16ToBytes(tlv.L)
                        ELSE << tlv.L % 256 >>)
                    \o tlv.V]

\* Not the whole check: the access conditions are not looked at.
ControlTLVCheckNoAccess(cTLV) ==
    IF cTLV.FileID \in {0, 57602, 57603, 16128, 16383}
    THEN "ControlTLV.check: File ID is reserved by ISO/IEC_7816-4"
    ELSE IF cTLV.FileID = 65535
    THEN "ControlTLV.check: File ID is invalid (RFU)"
    ELSE IF 0 <= cTLV.MaximumFileSize /\ cTLV.MaximumFileSize <= 4
    THEN "ControlTLV.check: Maximum File Size value is RFU"
    ELSE Nil

\* ControlTLV.check: reserved file ids, RFU sizes and RFU access conditions.
ControlTLVCheck(cTLV) ==
    IF cTLV.FileID \in {0, 57602, 57603, 16128, 16383}
    THEN "ControlTLV.check: File ID is reserved by ISO/IEC_7816-4"
    ELSE IF cTLV.FileID = 65535
    THEN "ControlTLV.check: File ID is invalid (RFU)"
    ELSE IF 0 <= cTLV.MaximumFileSize /\ cTLV.MaximumFileSize <= 4
    THEN "ControlTLV.check: Maximum File Size value is RFU"
    ELSE IF 1 <= cTLV.FileReadAccessCondition /\ cTLV.FileReadAccessCondition <= 127
    THEN "ControlTLV.check: Read Access Condition has RFU value"
    ELSE IF 1 <= cTLV.FileWriteAccessCondition /\ cTLV.FileWriteAccessCondition <= 127
    THEN "ControlTLV.check: Write Access Condition has RFU value"
    ELSE Nil

NoControlTLV ==
    [T |-> 0, L |-> 0, FileID |-> 0, MaximumFileSize |-> 0,
     FileReadAccessCondition |-> 0, FileWriteAccessCondition |-> 0]

\* Not the projection of V: the two access conditions change places.
ControlTLVOfTLVSwapped(r) ==
    IF r.err # Nil THEN [err |-> r.err, n |-> r.n, tlv |-> NoControlTLV]
    ELSE IF r.n # 8
    THEN [err |-> "ControlTLV: Wrong size", n |-> r.n, tlv |-> NoControlTLV]
    ELSE [err |-> Nil, n |-> r.n,
          tlv |-> [T |-> r.tlv.T, L |-> r.tlv.L % 256,
                   FileID |-> BytesToUint16(<< r.tlv.V[1], r.tlv.V[2] >>),
                   MaximumFileSize |-> BytesToUint16(<< r.tlv.V[3], r.tlv.V[4] >>),
                   FileReadAccessCondition |-> r.tlv.V[6],
                   FileWriteAccessCondition |-> r.tlv.V[5]]]

\* ControlTLV.Unmarshal: a TLV of exactly 8 bytes whose V is projected onto
\* the four fields.
ControlTLVOfTLV(r) ==
    IF r.err # Nil THEN [err |-> r.err, n |-> r.n, tlv |-> NoControlTLV]
    ELSE IF r.n # 8
    THEN [err |-> "ControlTLV: Wrong size", n |-> r.n, tlv |-> NoControlTLV]
    ELSE LET c == [T |-> r.tlv.T, L |-> r.tlv.L % 256,
                   FileID |-> BytesToUint16(<< r.tlv.V[1], r.tlv.V[2] >>),
                   MaximumFileSize |-> BytesToUint16(<< r.tlv.V[3], r.tlv.V[4] >>),
                   FileReadAccessCondition |-> r.tlv.V[5],
                   FileWriteAccessCondition |-> r.tlv.V[6]]
         IN  [err |-> ControlTLVCheck(c), n |-> r.n, tlv |-> c]

ControlTLVUnmarshal(buf) == ControlTLVOfTLV(TLVUnmarshal(buf))

ControlTLVMarshal(cTLV) ==
    IF ControlTLVCheck(cTLV) # Nil
    THEN [err |-> ControlTLVCheck(cTLV), bytes |-> << >>]
    ELSE TLVMarshal([T |-> cTLV.T, L |-> cTLV.L,
                     V |-> Uint16ToBytes(cTLV.FileID)
                           \o Uint16ToBytes(cTLV.MaximumFileSize)
                           \o << cTLV.FileReadAccessCondition,
                                 cTLV.FileWriteAccessCondition >>])

IsNDEFFileControlTLV(cTLV) == cTLV.T = TypeNDEFFileControlTLV
\* Not the access check: every file taken as readable.
IsFileReadableAlways(cTLV) == TRUE

IsFileReadable(cTLV) == cTLV.FileReadAccessCondition = 0
IsFileWriteable(cTLV) == cTLV.FileWriteAccessCondition = 0
IsFileReadOnly(cTLV) == cTLV.FileWriteAccessCondition = 255 /\ IsFileReadable(cTLV)

\* NDEFFileControlTLV.Unmarshal: a Control TLV r that must have the NDEF type.
NDEFFileControlTLVOf(r) ==
    IF r.err # Nil THEN r
    ELSE IF ~IsNDEFFileControlTLV(r.tlv)
    THEN [r EXCEPT !.err = "NDEFFileControlTLV.Unmarshal: TLV is not a NDEF File Control TLV"]
    ELSE r

NDEFFileControlTLVUnmarshal(buf) == NDEFFileControlTLVOf(ControlTLVUnmarshal(buf))

-----------------------------------------------------------------------------
(* capabilitycontainer/capability_container.go *)

CCID == 57603     \* 0xE103

IsPropietaryFileControlTLV(cTLV) == cTLV.T = TypePropietaryFileControlTLV

\* CapabilityContainer.check: the error of the first optional Control TLV
\* that does not pass its check.
RECURSIVE CCCheckTLVs(_)
CCCheckTLVs(blocks) ==
    IF blocks = << >> THEN Nil
    ELSE IF ControlTLVCheck(Head(blocks)) # Nil THEN ControlTLVCheck(Head(blocks))
    ELSE CCCheckTLVs(Tail(blocks))

CCCheck(cc) ==
    IF (0 <= cc.CCLEN /\ cc.CCLEN <= 14) \/ cc.CCLEN = 65535
    THEN "CapabilityContainer.check: CCLEN is RFU"
    ELSE IF 0 <= cc.MLe /\ cc.MLe <= 14
    THEN "CapabilityContainer.check: MLe is RFU"
    ELSE IF cc.MLc = 0
    THEN "CapabilityContainer.check: MLc is RFU"
    ELSE IF ControlTLVCheck(cc.NDEFFileControlTLV) # Nil
    THEN ControlTLVCheck(cc.NDEFFileControlTLV)
    ELSE CCCheckTLVs(cc.TLVBlocks)

\* The loop of CapabilityContainer.Unmarshal over the optional TLV blocks:
\* from offset i, parse a TLV r out of buf[i:] while i < cclen; a TLV whose T
\* is not a Control TLV type is jumped over, any other is parsed again as a
\* Control TLV c and kept.
RECURSIVE CCUnmarshalBlocks(_, _, _, _)
CCUnmarshalControl(buf, i, cclen, blocks, c) ==
    IF c.err # Nil THEN [err |-> c.err, i |-> i + c.n, blocks |-> blocks]
    ELSE CCUnmarshalBlocks(buf, i + c.n, cclen, Append(blocks, c.tlv))

CCUnmarshalBlock(buf, i, cclen, blocks, r) ==
    IF r.err # Nil THEN [err |-> r.err, i |-> i + r.n, blocks |-> blocks]
    ELSE IF r.tlv.T # TypeNDEFFileControlTLV /\ r.tlv.T # TypePropietaryFileControlTLV
    THEN CCUnmarshalBlocks(buf, i + r.n, cclen, blocks)
    ELSE CCUnmarshalControl(buf, i, cclen, blocks, ControlTLVOfTLV(r))

CCUnmarshalBlocks(buf, i, cclen, blocks) ==
    IF i < cclen
    THEN CCUnmarshalBlock(buf, i, cclen, blocks, TLVUnmarshal(Slice(buf, i, Len(buf))))
    ELSE [err |-> Nil, i |-> i, blocks |-> blocks]

NoCC ==
    [CCLEN |-> 0, MappingVersion |-> 0, MLe |-> 0, MLc |-> 0,
     NDEFFileControlTLV |-> NoControlTLV, TLVBlocks |-> << >>]

\* Not the end of Unmarshal: the count of bytes parsed is not compared
\* with CCLEN.
CCUnmarshalCheckNoCount(cclen, bl, cc) ==
    IF bl.err # Nil THEN [err |-> bl.err, n |-> bl.i, cc |-> NoCC]
    ELSE IF CCCheck(cc) # Nil
    THEN [err |-> CCCheck(cc), n |-> bl.i, cc |-> NoCC]
    ELSE [err |-> Nil, n |-> bl.i, cc |-> cc]

\* CapabilityContainer.Unmarshal, its end: the fields parsed into cc and the
\* optional TLV blocks into bl, the count and the values are checked.
CCUnmarshalCheck(cclen, bl, cc) ==
    IF bl.err # Nil THEN [err |-> bl.err, n |-> bl.i, cc |-> NoCC]
    ELSE IF bl.i # cclen
    THEN [err |-> "CapabilityContainer.Unmarshal: expected cclen bytes but parsed another number",
          n |-> bl.i, cc |-> NoCC]
    ELSE IF CCCheck(cc) # Nil
    THEN [err |-> CCCheck(cc), n |-> bl.i, cc |-> NoCC]
    ELSE [err |-> Nil, n |-> bl.i, cc |-> cc]

\* CapabilityContainer.Unmarshal after the NDEF File Control TLV fc was
\* parsed from bytes 7..14.
CCUnmarshalFields(buf, cclen, fc, bl) ==
    IF fc.err # Nil THEN [err |-> fc.err, n |-> 15, cc |-> NoCC]
    ELSE CCUnmarshalCheck(cclen, bl,
                          [CCLEN |-> cclen, MappingVersion |-> buf[3],
                           MLe |-> BytesToUint16(<< buf[4], buf[5] >>),
                           MLc |-> BytesToUint16(<< buf[6], buf[7] >>),
                           NDEFFileControlTLV |-> fc.tlv,
                           TLVBlocks |-> bl.blocks])

CCUnmarshalTLVs(buf, cclen, fc) ==
    CCUnmarshalFields(buf, cclen, fc,
                      CCUnmarshalBlocks(buf, 7 + fc.n, cclen, << >>))

CCUnmarshal(buf) ==
    IF Len(buf) < 15
    THEN [err |-> "CapabilityContainer.Unmarshal: not enough bytes to parse",
          n |-> 0, cc |-> NoCC]
    ELSE CCUnmarshalTLVs(buf, BytesToUint16(<< buf[1], buf[2] >>),
                         NDEFFileControlTLVUnmarshal(Slice(buf, 7, 15)))

\* The loop of CapabilityContainer.Marshal over the optional Control TLVs: a
\* block whose T is not a Control TLV type is not written; the first block
\* whose Marshal fails gives the error.
RECURSIVE CCMarshalBlocks(_)
CCMarshalNext(m, rest) ==
    IF m.err # Nil \/ rest.err # Nil
    THEN [err |-> IF m.err # Nil THEN m.err ELSE rest.err, bytes |-> << >>]
    ELSE [err |-> Nil, bytes |-> m.bytes \o rest.bytes]

CCMarshalBlocks(blocks) ==
    IF blocks = << >> THEN [err |-> Nil, bytes |-> << >>]
    ELSE IF ~IsNDEFFileControlTLV(Head(blocks)) /\ ~IsPropietaryFileControlTLV(Head(blocks))
    THEN CCMarshalBlocks(Tail(blocks))
    ELSE CCMarshalNext(ControlTLVMarshal(Head(blocks)), CCMarshalBlocks(Tail(blocks)))

\* CapabilityContainer.Marshal, after check: the seven bytes of the fields, the
\* NDEF File Control TLV fcm and the optional Control TLVs bm.
CCMarshalParts(cc, fcm, bm) ==
    IF fcm.err # Nil THEN [err |-> fcm.err, bytes |-> << >>]
    ELSE IF bm.err # Nil THEN [err |-> bm.err, bytes |-> << >>]
    ELSE [err |-> Nil,
          bytes |-> Uint16ToBytes(cc.CCLEN) \o << cc.MappingVersion >>
                    \o Uint16ToBytes(cc.MLe) \o Uint16ToBytes(cc.MLc)
                    \o fcm.bytes \o bm.bytes]

CCMarshal(cc) ==
    IF CCCheck(cc) # Nil THEN [err |-> CCCheck(cc), bytes |-> << >>]
    ELSE CCMarshalParts(cc, ControlTLVMarshal(cc.NDEFFileControlTLV),
                        CCMarshalBlocks(cc.TLVBlocks))

-----------------------------------------------------------------------------
(* tags/static/tag.go : the software Tag *)

defaultNDEFFileID == 57604     \* 0xE104
NFCForumMajorVersion == 2
NFCForumMinorVersion == 0

\* The Capability Container Tag.doRead builds and marshals for a tag whose
\* NDEF file id is fileID.
StaticTagCC(fileID) ==
    [CCLEN |-> 15,
     MappingVersion |-> NFCForumMajorVersion * 16 + NFCForumMinorVersion,
     MLe |-> 255, MLc |-> 255,
     NDEFFileControlTLV |->
        [T |-> 4, L |-> 6, FileID |-> fileID, MaximumFileSize |-> 65534,
         FileReadAccessCondition |-> 0, FileWriteAccessCondition |-> 0],
     TLVBlocks |-> << >>]

\* Tag.Initialize
TagInitialize(tag) == [tag EXCEPT !.file = << 0, 0 >>]

\* Tag.SetMessage, given the marshalled message.
TagSetMessage(tag, mBytes) ==
    IF Len(mBytes) > 65534 THEN tag
    ELSE [tag EXCEPT !.file = Uint16ToBytes(Len(mBytes)) \o mBytes]

\* A tag's reply: the tag afterwards, the RAPDU, and whether the handler
\* panicked (a slice out of range ends the process that runs the tag).
TagReply(tag, rapdu) == [tag |-> tag, rapdu |-> rapdu, panic |-> FALSE]
TagPanic(tag) == [tag |-> tag, rapdu |-> RAPDUCommandNotAllowed, panic |-> TRUE]

\* Not the Tag's SELECT by id: any id of two bytes is taken for a file.
doSelectAnyFile(tag, capdu) ==
    IF capdu.P1 = 0 /\ capdu.P2 = 12 /\ GetLc(capdu) = 2
    THEN TagReply([tag EXCEPT !.selectedFileID =
                      BytesToUint16(<< capdu.Data[1], capdu.Data[2] >>)],
                  RAPDUCommandCompleted)
    ELSE TagReply(tag, RAPDUFileNotFound)

\* Tag.doSelect
doSelect(tag, capdu) ==
    IF capdu.P1 = 4 /\ capdu.P2 = 0 /\ GetLc(capdu) = 7
    THEN IF capdu.Data = NDEFAppName
         THEN TagReply(tag, RAPDUCommandCompleted)
         ELSE TagReply(tag, RAPDUFileNotFound)
    ELSE IF capdu.P1 = 0 /\ capdu.P2 = 12
    THEN IF GetLc(capdu) # 2
         THEN TagReply(tag, RAPDULcInconsistent)
         ELSE LET fID == BytesToUint16(<< capdu.Data[1], capdu.Data[2] >>)
              IN  IF fID = 57603
                     \/ (tag.FileID = 0 /\ fID = defaultNDEFFileID)
                     \/ (tag.FileID # 0 /\ tag.FileID = fID)
                  THEN TagReply([tag EXCEPT !.selectedFileID = fID],
                                RAPDUCommandCompleted)
                  ELSE TagReply(tag, RAPDUFileNotFound)
    ELSE TagReply(tag, RAPDUFileNotFound)

\* Not what the Tag does: a read of message bytes that erases the length of
\* the NDEF file.
doReadWindowErasing(tag, capdu, rBytes) ==
    TagReply([tag EXCEPT !.file =
                 IF BytesToUint16(<< capdu.P1, capdu.P2 >>) >= 2
                 THEN << 0, 0 >> \o Slice(tag.file, 2, Len(tag.file))
                 ELSE tag.file],
             [RAPDUCommandCompleted EXCEPT
                !.ResponseBody = Slice(rBytes, BytesToUint16(<< capdu.P1, capdu.P2 >>),
                                       Min(Len(rBytes),
                                           BytesToUint16(<< capdu.P1, capdu.P2 >>)
                                           + GetLe(capdu)))])

\* The window of rBytes that Tag.doRead returns for offset P1P2 and Le.
doReadWindow(tag, capdu, rBytes) ==
    LET offset == BytesToUint16(<< capdu.P1, capdu.P2 >>)
        le     == GetLe(capdu)
        rLen   == IF le + offset > Len(rBytes) THEN Len(rBytes) - offset ELSE le
    IN  IF rLen < 0 THEN TagPanic(tag)
        ELSE TagReply(tag, [RAPDUCommandCompleted EXCEPT
                              !.ResponseBody = Slice(rBytes, offset, offset + rLen)])

\* Tag.doRead.  tag.cc is the Capability Container file the tag serves:
\* CCMarshal(StaticTagCC(fileID)).bytes for the static tag of tag.go.
doRead(tag, capdu) ==
    IF tag.selectedFileID = 0 THEN TagReply(tag, RAPDUFileNotFound)
    ELSE IF tag.selectedFileID = CCID THEN doReadWindow(tag, capdu, tag.cc)
    ELSE IF tag.selectedFileID = defaultNDEFFileID
    THEN IF tag.FileID # 0 /\ tag.FileID # defaultNDEFFileID
         THEN TagReply(tag, RAPDUFileNotFound)
         ELSE doReadWindow(tag, capdu, tag.file)
    ELSE IF tag.selectedFileID = tag.FileID
    THEN doReadWindow(tag, capdu, tag.file)
    ELSE TagReply(tag, RAPDUFileNotFound)

\* Not the write of the Tag: the file ends where the data written ends.
WriteAtTruncating(file, offset, data) ==
    [k \in 1..(offset + Len(data)) |->
        IF k > offset THEN data[k - offset]
        ELSE IF k <= Len(file) THEN file[k]
        ELSE 0]

\* Not the write of the Tag: the data written taken for the whole file.
WriteAtDataOnly(file, offset, data) == data

\* The NDEF file after data is written at offset: grown with zeros when the
\* write ends beyond its end.
WriteAt(file, offset, data) ==
    LET size == IF offset + Len(data) > Len(file) THEN offset + Len(data)
                ELSE Len(file)
    IN  [k \in 1..size |->
            IF k > offset /\ k <= offset + Len(data) THEN data[k - offset]
            ELSE IF k <= Len(file) THEN file[k]
            ELSE 0]

\* Not the Tag's UPDATE_BINARY: the data written before the selected file is
\* looked at.
doUpdateWritingFirst(tag, capdu) ==
    IF tag.selectedFileID = 0
       \/ (tag.selectedFileID = defaultNDEFFileID
           /\ tag.FileID # 0 /\ tag.FileID # defaultNDEFFileID)
       \/ (tag.selectedFileID # tag.FileID /\ tag.selectedFileID # defaultNDEFFileID)
    THEN TagReply([tag EXCEPT !.file =
                      WriteAt(tag.file, BytesToUint16(<< capdu.P1, capdu.P2 >>),
                              capdu.Data)],
                  RAPDUFileNotFound)
    ELSE TagReply([tag EXCEPT !.file =
                      WriteAt(tag.file, BytesToUint16(<< capdu.P1, capdu.P2 >>),
                              capdu.Data)],
                  RAPDUCommandCompleted)

\* Tag.doUpdate
doUpdate(tag, capdu) ==
    IF tag.selectedFileID = 0 THEN TagReply(tag, RAPDUFileNotFound)
    ELSE IF tag.selectedFileID = defaultNDEFFileID
            /\ tag.FileID # 0 /\ tag.FileID # defaultNDEFFileID
    THEN TagReply(tag, RAPDUFileNotFound)
    ELSE IF tag.selectedFileID # tag.FileID
            /\ tag.selectedFileID # defaultNDEFFileID
    THEN TagReply(tag, RAPDUFileNotFound)
    ELSE TagReply([tag EXCEPT !.file =
                      WriteAt(tag.file,
                              BytesToUint16(<< capdu.P1, capdu.P2 >>),
                              capdu.Data)],
                  RAPDUCommandCompleted)

\* Not the Tag: commands handled whether the tag is initialised or not.
TagCommandAlways(tag, capdu) ==
    IF capdu.INS = INSSelect THEN doSelect(tag, capdu)
    ELSE IF capdu.INS = INSRead THEN doRead(tag, capdu)
    ELSE IF capdu.INS = INSUpdate THEN doUpdate(tag, capdu)
    ELSE TagReply(tag, RAPDUCommandNotAllowed)

\* Tag.Command
TagCommand(tag, capdu) ==
    IF Len(tag.file) < 2 THEN TagReply(tag, RAPDUInactiveState)
    ELSE IF capdu.INS = INSSelect THEN doSelect(tag, capdu)
    ELSE IF capdu.INS = INSRead THEN doRead(tag, capdu)
    ELSE IF capdu.INS = INSUpdate THEN doUpdate(tag, capdu)
    ELSE TagReply(tag, RAPDUCommandNotAllowed)

-----------------------------------------------------------------------------
(* drivers/swtag/driver.go : the software-tag transport *)

\* A panic in the tag propagates through the driver and the Commander.
Panic == "panic: runtime error"

\* Driver.TransceiveBytes
\* Driver.TransceiveBytes, its end: the reply r of the Tag is serialized.
TransceiveReply(r, rxBuf, rxLen) ==
    IF r.panic THEN [err |-> Panic, rx |-> << >>, tag |-> r.tag]
    ELSE IF Len(rxBuf) > rxLen
    THEN [err |-> "Driver.TransceiveBytes: The length of the response is larger than expected",
          rx |-> rxBuf, tag |-> r.tag]
    ELSE [err |-> Nil, rx |-> rxBuf, tag |-> r.tag]

TransceiveCommand(tag, r, rxLen) == TransceiveReply(r, RAPDUMarshal(r.rapdu), rxLen)

\* Driver.TransceiveBytes once tx is parsed to c: the Tag processes the APDU.
TransceiveAPDU(tag, c, rxLen) ==
    IF c.err # Nil THEN [err |-> c.err, rx |-> << >>, tag |-> tag]
    ELSE TransceiveCommand(tag, TagCommand(tag, c.apdu), rxLen)

TransceiveBytes(tag, tx, rxLen) == TransceiveAPDU(tag, CAPDUUnmarshal(tx), rxLen)

-----------------------------------------------------------------------------
(* drivers/dummy/driver.go : the transport of pre-programmed responses *)

\* Driver.TransceiveBytes: the data sent is ignored, the next element of
\* ReceiveBytes is returned, or an error when all were returned.
DummyTransceiveBytes(driver) ==
    IF driver.ReceiveBytesPos >= Len(driver.ReceiveBytes)
    THEN [err |-> "Driver.TransceiveBytes: no data to return", rx |-> << >>,
          tag |-> driver]
    ELSE [err |-> Nil, rx |-> driver.ReceiveBytes[driver.ReceiveBytesPos + 1],
          tag |-> [driver EXCEPT !.ReceiveBytesPos = @ + 1]]

\* cmder.Driver.TransceiveBytes(tx, rxLen): the call goes to the driver the
\* Device was made with, the software-tag driver of a Tag or a dummy driver.
DriverTransceiveBytes(driver, tx, rxLen) ==
    IF driver.name = "dummy" THEN DummyTransceiveBytes(driver)
    ELSE TransceiveBytes(driver, tx, rxLen)

-----------------------------------------------------------------------------
(* commander.go : the Commander *)

\* What every Commander call does with a built CAPDU: marshal, transceive
\* with room for rxLen bytes, unmarshal the RAPDU.
ExchangeUnmarshal(t, u) ==
    [err |-> u.err, rapdu |-> u.rapdu, tag |-> t.tag, sent |-> TRUE]

ExchangeReceive(t) ==
    IF t.err # Nil
    THEN [err |-> t.err, rapdu |-> RAPDUCommandNotAllowed, tag |-> t.tag, sent |-> TRUE]
    ELSE ExchangeUnmarshal(t, RAPDUUnmarshal(t.rx))

ExchangeSend(tag, m, rxLen) ==
    IF m.err # Nil
    THEN [err |-> m.err, rapdu |-> RAPDUCommandNotAllowed, tag |-> tag, sent |-> FALSE]
    ELSE ExchangeReceive(DriverTransceiveBytes(tag, m.bytes, rxLen))

CommanderExchange(tag, cApdu, rxLen) ==
    ExchangeSend(tag, CAPDUMarshal(cApdu), rxLen)

\* The result of a Commander call that exchanged cApdu and got x: its error
\* (notFound when the tag answers File not found, failed for any other answer
\* but Command completed), and the response body if it returns one.
CommanderResult(cApdu, x, notFound, failed, withBody) ==
    [err |-> IF x.err # Nil THEN x.err
             ELSE IF CommandCompleted(x.rapdu) THEN Nil
             ELSE IF FileNotFound(x.rapdu) THEN notFound
             ELSE failed,
     body |-> IF withBody /\ x.err = Nil /\ CommandCompleted(x.rapdu)
              THEN x.rapdu.ResponseBody ELSE << >>,
     tag |-> x.tag, capdu |-> cApdu, sent |-> x.sent, rapdu |-> x.rapdu]

\* A Commander call with the CAPDU it built.
CommanderCall(tag, cApdu, rxLen, notFound, failed, withBody) ==
    CommanderResult(cApdu, CommanderExchange(tag, cApdu, rxLen),
                    notFound, failed, withBody)

\* fmt.Errorf("Commander.Select: File %02xh not found", fileID), for the file
\* ids a Device of the model is told to select.
SelectNotFound(fileID) ==
    CASE fileID = 57603 -> "Commander.Select: File e103h not found"
      [] fileID = 57604 -> "Commander.Select: File e104h not found"
      [] fileID = 34952 -> "Commander.Select: File 8888h not found"

\* Commander.Select
CommanderSelectAPDU(tag, cApdu, fileID) ==
    CommanderCall(tag, cApdu, (GetLe(cApdu) + 2) % 65536,
                  SelectNotFound(fileID), "Select: Unknown error", FALSE)

CommanderSelect(tag, fileID) ==
    CommanderSelectAPDU(tag, NewSelectAPDU(fileID), fileID)

\* Commander.ReadBinary
CommanderReadBinary(tag, offset, length) ==
    CommanderCall(tag, NewReadBinaryAPDU(offset, length), length + 2,
                  "Commander.ReadBinary: Error", "Commander.ReadBinary: Error",
                  TRUE)

\* Commander.UpdateBinary
CommanderUpdateBinary(tag, buf, offset) ==
    CommanderCall(tag, NewUpdateBinaryAPDU(buf, offset), 2,
                  "Commander.UpdateBinary: Error", "Commander.UpdateBinary: Error",
                  FALSE)

\* Commander.NDEFApplicationSelect
CommanderNDEFApplicationSelect(tag) ==
    CommanderCall(tag, NewNDEFTagApplicationSelectAPDU,
                  (GetLe(NewNDEFTagApplicationSelectAPDU) + 2) % 65536,
                  "Commander.NDEFApplicationSelect: NDEF Tag Application not found",
                  "Commander.NDEFApplicationSelect: unknown error",
                  FALSE)

-----------------------------------------------------------------------------
(* The bounds of the model and the inputs drawn from them *)

\* Device operations run one after another in Spec.
MaxOps == 2
\* Short messages have 0..MaxMsgLen bytes.
MaxMsgLen == 5
\* MLc of the tags that make Update write in chunks.
SmallMLc == 2

\* The smallest MLe a Capability Container may declare (below it is RFU).
MinMLe == 15

\* A message of n bytes; the bytes depend on n and on seed, so that two
\* messages differ wherever they overlap.
Msg(n, seed) == [i \in 1..n |-> (seed * 100 + n * 3 + i) % 256]

\* Messages longer than one and than two READ_BINARY of MinMLe bytes.
LongLens == {MinMLe + 1, 2 * MinMLe + 1}
MsgLens == (0..MaxMsgLen) \cup LongLens
Messages == {Msg(n, 1) : n \in MsgLens}

\* The bytes of a 15-byte Capability Container file, as a tag may store them
\* (unchecked: a tag can hold RFU values), followed by extra TLV bytes.
RawCC(cclen, mle, mlc, fileID, maxSize, r, w, extra) ==
    Uint16ToBytes(cclen) \o << 32 >> \o Uint16ToBytes(mle) \o Uint16ToBytes(mlc)
    \o << 4, 6 >> \o Uint16ToBytes(fileID) \o Uint16ToBytes(maxSize)
    \o << r, w >> \o extra

\* The optional proprietary-file Control TLV of the long_cc_ok test set.
LongCCExtra == << 5, 6, 225, 5, 0, 128, 130, 131 >>

\* The largest NDEF file of the small tags: their largest message has
\* MaxMsgLen - 1 bytes, so a message of MaxMsgLen bytes is one byte too long.
SmallMaxFileSize == MaxMsgLen + 1
\* The NDEF file of the tags that hold the long messages.
LargeMaxFileSize == 2 * MinMLe + 3

\* The tags: the static tag of tags/static/tag.go, and tags whose Capability
\* Container declares other limits and access conditions.
TagKinds ==
    { [name |-> "static", FileID |-> 0,
       cc |-> CCMarshal(StaticTagCC(defaultNDEFFileID)).bytes],
      [name |-> "customid", FileID |-> 34952,
       cc |-> CCMarshal(StaticTagCC(34952)).bytes],
      [name |-> "small", FileID |-> 0,
       cc |-> RawCC(15, MinMLe, SmallMLc, defaultNDEFFileID, SmallMaxFileSize, 0, 0, << >>)],
      [name |-> "large", FileID |-> 0,
       cc |-> RawCC(15, MinMLe, MinMLe + 1, defaultNDEFFileID, LargeMaxFileSize, 0, 0, << >>)],
      [name |-> "readonly", FileID |-> 0,
       cc |-> RawCC(15, MinMLe, SmallMLc, defaultNDEFFileID, SmallMaxFileSize, 0, 255, << >>)],
      [name |-> "writeprop", FileID |-> 0,
       cc |-> RawCC(15, MinMLe, SmallMLc, defaultNDEFFileID, SmallMaxFileSize, 0, 128, << >>)],
      [name |-> "readprop", FileID |-> 0,
       cc |-> RawCC(15, MinMLe, SmallMLc, defaultNDEFFileID, SmallMaxFileSize, 128, 0, << >>)],
      [name |-> "noread", FileID |-> 0,
       cc |-> RawCC(15, MinMLe, SmallMLc, defaultNDEFFileID, SmallMaxFileSize, 255, 0, << >>)],
      [name |-> "readrfu", FileID |-> 0,
       cc |-> RawCC(15, MinMLe, SmallMLc, defaultNDEFFileID, SmallMaxFileSize, 1, 0, << >>)],
      [name |-> "longcc", FileID |-> 0,
       cc |-> RawCC(23, 256, 255, defaultNDEFFileID, 256, 0, 0, LongCCExtra)] }

\* A tag of kind k after Initialize().
NewTag(k) ==
    TagInitialize([name |-> k.name, FileID |-> k.FileID, selectedFileID |-> 0,
                   file |-> << >>, cc |-> k.cc])

\* A tag in an invalid state (test set device_invalid_state): its NLEN field
\* is larger than the maximum file size it declares leaves room for.
OverfullTag(k) == TagSetMessage(NewTag(k), Msg(SmallMaxFileSize - 1, 2))

\* What a tag holds when a Device first meets it: nothing (Initialize), or a
\* message programmed with SetMessage.
InitialTags ==
    {NewTag(k) : k \in TagKinds}
    \cup {TagSetMessage(NewTag(k), Msg(3, 2)) : k \in TagKinds}
    \cup {OverfullTag(k) : k \in {j \in TagKinds : j.name = "small"}}

-----------------------------------------------------------------------------
(* The state *)

VARIABLES
    tag,    \* what the drivers talk to: the Tag the software-tag drivers point
            \* to, or the dummy driver with what is left of its responses
    ses,    \* per Device: the procedure it runs and where that procedure is
    hist    \* the procedures that returned, in the order they returned

vars == << tag, ses, hist >>

Sessions == {1, 2}

\* The errors of the Device procedures.
ErrNotReadable == "Device.Read: NDEF File is marked as not readable."
ErrInvalidState == "Device.Read: Device is not in a valid state"
ErrNoNDEF == "Device.Read: no NDEF Message detected."
ErrReadOnly == "Device.Update: the tag is read-only"
ErrTooLarge == "Message is too large"
ErrNoRecords == "NDEF Message Check: No records"
ErrTransport == "transport error"

NoState ==
    [NLEN |-> 0, MaxReadBinaryLen |-> 0, MaxUpdateBinaryLen |-> 0,
     MaxNDEFLen |-> 0, ReadOnly |-> FALSE]

\* A Device made by New(driver) that has run nothing yet.  f0 is the NDEF
\* file of the tag as it was when the procedure was called.
IdleSession ==
    [op |-> "none", pc |-> "idle", msg |-> << >>, fileID |-> 0, st |-> NoState,
     chunkLen |-> 0, total |-> 0, buffer |-> << >>, err |-> Nil, out |-> << >>,
     sent |-> << >>, win |-> "none", w0 |-> "none", wn |-> "none", w1 |-> "none",
     drv |-> << >>, f0 |-> << >>]

-----------------------------------------------------------------------------
(* nfctype4 Device : Read, Update, Format and ndefDetectProcedure *)

\* m.Marshal() of the NDEF library: a message has at least one record, so
\* there is no message of zero bytes ("update cannot be used to format").
NDEFMessageMarshal(m) ==
    IF Len(m) = 0 THEN [err |-> ErrNoRecords, bytes |-> << >>]
    ELSE [err |-> Nil, bytes |-> m]

\* Not the return of the Device: the driver is left open.
FinishWithoutClose(sn, err, out) ==
    [sn EXCEPT !.pc = "done", !.err = err, !.out = out]

\* The procedure returns: the deferred Driver.Close() runs.  drv is what the
\* procedure called on its driver, in the order of the calls.
Finish(sn, err, out) ==
    [sn EXCEPT !.pc = "done", !.err = err, !.out = out,
               !.drv = Append(@, "close")]

\* One Commander call x, recorded in the order of sending, and the
\* Driver.TransceiveBytes it made.
Log(sn, x) ==
    IF x.sent THEN [sn EXCEPT !.sent = Append(@, [capdu |-> x.capdu, err |-> x.err,
                                                  rapdu |-> x.rapdu]),
                              !.drv = Append(@, "transceive")]
    ELSE sn

\* Not the limit of the Device: the whole file taken for the message.
MaxMessageLenWholeFile(st) == st.MaxNDEFLen % 65536

\* The largest message the detected tag takes: MaxNDEFLen-2 in uint16.
MaxMessageLen(st) == (st.MaxNDEFLen - 2) % 65536

\* Not the writeLen of the Device: one byte per command.
FirstChunkLenOneByte(max, n) == IF n < 1 THEN n ELSE 1

\* readLen / writeLen before the loop: the maximum or, if that is more than
\* there is to transfer, what there is.
FirstChunkLen(max, n) == IF n < max THEN n ELSE max

\* Not the readLen / writeLen of the loop: the last round is not cut down.
NextChunkLenUncut(n, total, chunkLen) == chunkLen

\* readLen / writeLen inside the loop: cut down in the last round.
NextChunkLen(n, total, chunkLen) ==
    IF n - total < chunkLen THEN n - total ELSE chunkLen

\* Not the offset of the Device: the chunks written from the start of the file.
ChunkOffsetNoNLEN(total) == total % 65536

\* The offset of a payload chunk: always after the 2 NLEN bytes.
ChunkOffset(total) == (2 + total) % 65536

\* Not what Format writes: a length of one byte.
OneNLENBytes == << 0, 1 >>

\* What Format and the first write of Update put in the NLEN field.
ZeroNLENBytes == << 0, 0 >>

\* Not what Update writes: the length with its low byte first.
FinalNLENBytesLowFirst(msgLen) == << msgLen % 256, (msgLen % 65536) \div 256 >>

\* What the last write of Update puts in the NLEN field.
FinalNLENBytes(msgLen) == Uint16ToBytes(msgLen)

\* After a successful ndefDetectProcedure: the checks Read, Update and
\* Format make before their first own command.
ReadAfterDetect(sn) ==
    IF sn.st.NLEN = 0 THEN Finish(sn, ErrNoNDEF, << >>)
    ELSE [sn EXCEPT !.pc = "readChunk", !.total = 0, !.buffer = << >>,
                    !.chunkLen = FirstChunkLen(sn.st.MaxReadBinaryLen, sn.st.NLEN)]

\* Not what Update does: the payload written without NLEN set to 0 first.
UpdateWithoutSentinel(sn) ==
    IF sn.st.ReadOnly THEN Finish(sn, ErrReadOnly, << >>)
    ELSE IF NDEFMessageMarshal(sn.msg).err # Nil
    THEN Finish(sn, NDEFMessageMarshal(sn.msg).err, << >>)
    ELSE IF Len(sn.msg) > MaxMessageLen(sn.st)
    THEN Finish(sn, ErrTooLarge, << >>)
    ELSE [sn EXCEPT !.pc = "writeChunk", !.total = 0,
                    !.chunkLen = FirstChunkLen(sn.st.MaxUpdateBinaryLen,
                                               Len(sn.msg) % 65536)]

UpdateAfterDetect(sn) ==
    IF sn.st.ReadOnly THEN Finish(sn, ErrReadOnly, << >>)
    ELSE IF NDEFMessageMarshal(sn.msg).err # Nil
    THEN Finish(sn, NDEFMessageMarshal(sn.msg).err, << >>)
    ELSE IF Len(sn.msg) > MaxMessageLen(sn.st)
    THEN Finish(sn, ErrTooLarge, << >>)
    ELSE [sn EXCEPT !.pc = "zeroNLEN", !.total = 0,
                    !.chunkLen = FirstChunkLen(sn.st.MaxUpdateBinaryLen,
                                               Len(sn.msg) % 65536)]

\* Not what Format does: NLEN written twice, as by an Update of nothing.
FormatWritingTwice(sn) ==
    IF sn.st.ReadOnly THEN Finish(sn, ErrReadOnly, << >>)
    ELSE [sn EXCEPT !.pc = "zeroNLEN"]

FormatAfterDetect(sn) ==
    IF sn.st.ReadOnly THEN Finish(sn, ErrReadOnly, << >>)
    ELSE [sn EXCEPT !.pc = "formatWrite"]

AfterDetect(sn) ==
    CASE sn.op = "read" -> ReadAfterDetect(sn)
      [] sn.op = "update" -> UpdateAfterDetect(sn)
      [] sn.op = "format" -> FormatAfterDetect(sn)

\* ndefDetectProcedure after the Capability Container was read: parse it,
\* check that the NDEF file is readable, keep the limits.
DetectCheckCC(sn, c) ==
    IF c.err # Nil THEN Finish(sn, c.err, << >>)
    ELSE IF ~IsFileReadable(c.cc.NDEFFileControlTLV)
    THEN Finish(sn, ErrNotReadable, << >>)
    ELSE [sn EXCEPT !.pc = "ndefSelect",
                    !.fileID = c.cc.NDEFFileControlTLV.FileID,
                    !.st = [NLEN |-> 0,
                            MaxReadBinaryLen |-> c.cc.MLe,
                            MaxUpdateBinaryLen |-> c.cc.MLc,
                            MaxNDEFLen |-> c.cc.NDEFFileControlTLV.MaximumFileSize,
                            ReadOnly |-> IsFileReadOnly(c.cc.NDEFFileControlTLV)]]

DetectParseCC(sn, ccBytes) == DetectCheckCC(sn, CCUnmarshal(ccBytes))

\* Not the check of the Device: any NLEN taken as valid.
DetectParseNLENUnchecked(sn, nlenBytes) ==
    IF Len(nlenBytes) < 2 THEN Finish(sn, Panic, << >>)
    ELSE AfterDetect([sn EXCEPT !.st.NLEN =
                         BytesToUint16(<< nlenBytes[1], nlenBytes[2] >>)])

\* ndefDetectProcedure after the NLEN field was read.
DetectParseNLEN(sn, nlenBytes) ==
    IF Len(nlenBytes) < 2 THEN Finish(sn, Panic, << >>)
    ELSE LET nlen == BytesToUint16(<< nlenBytes[1], nlenBytes[2] >>)
         IN  IF nlen > MaxMessageLen(sn.st)
             THEN Finish(sn, ErrInvalidState, << >>)
             ELSE AfterDetect([sn EXCEPT !.st.NLEN = nlen])

\* ndefMessage.Unmarshal(ndefBytes) of the NDEF library: the bytes read are
\* the message, opaque here; there is no message of zero bytes.
NDEFMessageUnmarshal(ndefBytes) ==
    IF Len(ndefBytes) = 0 THEN [err |-> ErrNoRecords, bytes |-> << >>]
    ELSE [err |-> Nil, bytes |-> ndefBytes]

\* The Commander call a Device makes next, at its place pc.
Call(sn, t) ==
    CASE sn.pc = "appSelect" -> CommanderNDEFApplicationSelect(t)
      [] sn.pc = "ccSelect" -> CommanderSelect(t, CCID)
      [] sn.pc = "ccRead" -> CommanderReadBinary(t, 0, 15)
      [] sn.pc = "ndefSelect" -> CommanderSelect(t, sn.fileID)
      [] sn.pc = "nlenRead" -> CommanderReadBinary(t, 0, 2)
      [] sn.pc = "readChunk" ->
            CommanderReadBinary(t, ChunkOffset(sn.total),
                                NextChunkLen(sn.st.NLEN, sn.total, sn.chunkLen))
      [] sn.pc = "zeroNLEN" -> CommanderUpdateBinary(t, ZeroNLENBytes, 0)
      [] sn.pc = "writeChunk" ->
            LET n == NextChunkLen(Len(sn.msg), sn.total, sn.chunkLen)
            IN  CommanderUpdateBinary(t, Slice(sn.msg, sn.total, sn.total + n),
                                      ChunkOffset(sn.total))
      [] sn.pc = "writeNLEN" ->
            CommanderUpdateBinary(t, FinalNLENBytes(Len(sn.msg)), 0)
      [] sn.pc = "formatWrite" -> CommanderUpdateBinary(t, ZeroNLENBytes, 0)

\* Whether the tag is between the first and the last write of an Update:
\* "open" once the write of NLEN = 0 was applied, "closed" once the write of
\* the real NLEN was.
WinAfter(sn, applied) ==
    IF applied /\ sn.pc = "zeroNLEN" THEN "open"
    ELSE IF applied /\ sn.pc = "writeNLEN" THEN "closed"
    ELSE sn.win

Window ==
    IF \E u \in Sessions : ses[u].win = "open" THEN "open"
    ELSE IF \E u \in Sessions : ses[u].win = "closed" THEN "closed"
    ELSE "none"

\* Not the order of ndefDetectProcedure: the Capability Container read
\* without being selected.
ToCCReadUnselected(sn, body) == [sn EXCEPT !.pc = "ccRead"]

\* The continuations of the procedures: what each does once its command is
\* answered without error.
ToCCSelect(sn, body) == [sn EXCEPT !.pc = "ccSelect"]
ToCCRead(sn, body) == [sn EXCEPT !.pc = "ccRead"]
ToNLENRead(sn, body) == [sn EXCEPT !.pc = "nlenRead"]

\* Read: the rounds of the ReadBinary loop and, after the last one, the
\* parse of the message.
ReadDone(sn, m) == Finish(sn, m.err, m.bytes)

\* Not the loop of the Device: a Read that ends after its first round.
ReadRoundOnce(sn, readLen, totalRead, buffer) ==
    ReadDone([sn EXCEPT !.chunkLen = readLen, !.total = totalRead,
                        !.buffer = buffer],
             NDEFMessageUnmarshal(buffer))

ReadRound(sn, readLen, totalRead, buffer) ==
    IF totalRead < sn.st.NLEN
    THEN [sn EXCEPT !.chunkLen = readLen, !.total = totalRead, !.buffer = buffer]
    ELSE ReadDone([sn EXCEPT !.chunkLen = readLen, !.total = totalRead,
                             !.buffer = buffer],
                  NDEFMessageUnmarshal(buffer))

AfterReadChunk(sn, chunk) ==
    ReadRound(sn, NextChunkLen(sn.st.NLEN, sn.total, sn.chunkLen),
              (sn.total + NextChunkLen(sn.st.NLEN, sn.total, sn.chunkLen)) % 65536,
              sn.buffer \o chunk)

\* Not what Update does: the real NLEN written right after the first write.
SkipPayload(sn, body) == [sn EXCEPT !.pc = "writeNLEN"]

\* Update: after 0000h is written in the NLEN field
AfterZeroNLEN(sn, body) ==
    IF sn.total < Len(sn.msg) THEN [sn EXCEPT !.pc = "writeChunk"]
    ELSE [sn EXCEPT !.pc = "writeNLEN"]

\* Update: the rounds of the UpdateBinary loop
WriteRound(sn, writeLen, totalWrite) ==
    [sn EXCEPT !.chunkLen = writeLen, !.total = totalWrite,
               !.pc = IF totalWrite < Len(sn.msg) THEN "writeChunk"
                      ELSE "writeNLEN"]

AfterWriteChunk(sn, body) ==
    WriteRound(sn, NextChunkLen(Len(sn.msg), sn.total, sn.chunkLen),
               (sn.total + NextChunkLen(Len(sn.msg), sn.total, sn.chunkLen)) % 65536)

\* Update and Format: return after the last write
AfterLastWrite(sn, body) == Finish(sn, Nil, << >>)

\* What the procedure does with the body of the answer to the command of
\* its place pc.
After(sn, body) ==
    CASE sn.pc = "appSelect"   -> ToCCSelect(sn, body)
      [] sn.pc = "ccSelect"    -> ToCCRead(sn, body)
      [] sn.pc = "ccRead"      -> DetectParseCC(sn, body)
      [] sn.pc = "ndefSelect"  -> ToNLENRead(sn, body)
      [] sn.pc = "nlenRead"    -> DetectParseNLEN(sn, body)
      [] sn.pc = "readChunk"   -> AfterReadChunk(sn, body)
      [] sn.pc = "zeroNLEN"    -> AfterZeroNLEN(sn, body)
      [] sn.pc = "writeChunk"  -> AfterWriteChunk(sn, body)
      [] sn.pc = "writeNLEN"   -> AfterLastWrite(sn, body)
      [] sn.pc = "formatWrite" -> AfterLastWrite(sn, body)

\* Device s moves to sn2 and the tag to t2; a procedure that returned is
\* added to the history.
Step(s, sn2, t2) ==
    LET sn3 == IF sn2.pc = "done" THEN [sn2 EXCEPT !.w1 = Window] ELSE sn2
    IN  /\ ses' = [ses EXCEPT ![s] = sn3]
        /\ tag' = t2
        /\ hist' = IF sn3.pc = "done"
                   THEN Append(hist, [s |-> s, op |-> sn3.op, msg |-> sn3.msg,
                                      err |-> sn3.err, out |-> sn3.out])
                   ELSE hist

\* The Device with the call x recorded; wn keeps what Window was when NLEN
\* was read.
Logged(sn, x) ==
    [Log(sn, x) EXCEPT !.win = WinAfter(sn, x.err = Nil),
                       !.wn = IF sn.pc = "nlenRead" THEN Window ELSE @]

\* The Device after the Commander call x at its place: stopped by the error
\* of x, or where After says, sn1 being the Device with x recorded.
Continue(s, x, sn1) ==
    Step(s, IF x.err # Nil THEN Finish(sn1, x.err, << >>) ELSE After(sn1, x.body), x.tag)

\* Device s exchanges the command of its place pc with the tag.
Exchange(s, x) == Continue(s, x, Logged(ses[s], x))

Command(s) == Exchange(s, Call(ses[s], tag))

-----------------------------------------------------------------------------
(* The steps of a Device: one per command it exchanges with the tag *)

\* The NDEF file behind the driver, when the driver is that of a software Tag.
StoredFile(driver) == IF driver.name = "dummy" THEN << >> ELSE driver.file

\* Read(), Update(m) or Format() is called: checkReady and
\* Driver.Initialize() pass, ndefDetectProcedure starts.
Begin(s, op, m) ==
    /\ ses[s].pc \in {"idle", "done"}
    /\ Len(hist) < MaxOps
    /\ Step(s, [IdleSession EXCEPT !.op = op, !.msg = m, !.pc = "appSelect",
                                   !.w0 = Window, !.drv = << "initialize" >>,
                                   !.f0 = StoredFile(tag)], tag)

BeginRead(s) == Begin(s, "read", << >>)

BeginUpdate(s) == \E m \in Messages : Begin(s, "update", m)

BeginFormat(s) == Begin(s, "format", << >>)

\* ndefDetectProcedure: Select NDEF Application
AppSelect(s) ==
    /\ ses[s].pc = "appSelect"
    /\ Command(s)

\* ndefDetectProcedure: Select Capability Container
CCSelect(s) ==
    /\ ses[s].pc = "ccSelect"
    /\ Command(s)

\* ndefDetectProcedure: Read Capability Container and parse it
CCRead(s) ==
    /\ ses[s].pc = "ccRead"
    /\ Command(s)

\* ndefDetectProcedure: Select the NDEF File
NDEFSelect(s) ==
    /\ ses[s].pc = "ndefSelect"
    /\ Command(s)

\* ndefDetectProcedure: read NLEN; then the checks of the procedure that
\* called it.
NLENRead(s) ==
    /\ ses[s].pc = "nlenRead"
    /\ Command(s)

\* Read: one round of the ReadBinary loop and, after the last one, the
\* parse of the message.
ReadChunk(s) ==
    /\ ses[s].pc = "readChunk"
    /\ Command(s)

\* Update: write 0000h in the NLEN field first
ZeroNLEN(s) ==
    /\ ses[s].pc = "zeroNLEN"
    /\ Command(s)

\* Update: one round of the UpdateBinary loop
WriteChunk(s) ==
    /\ ses[s].pc = "writeChunk"
    /\ Command(s)

\* Update: finally write NLEN
WriteNLEN(s) ==
    /\ ses[s].pc = "writeNLEN"
    /\ Command(s)

\* Format: write 0000h in the NLEN field
FormatWrite(s) ==
    /\ ses[s].pc = "formatWrite"
    /\ Command(s)

-----------------------------------------------------------------------------
(* One Device working on one tag, one procedure after another *)

Init ==
    /\ tag \in InitialTags
    /\ ses = [s \in Sessions |-> IdleSession]
    /\ hist = << >>

Next ==
    \/ BeginRead(1)
    \/ BeginUpdate(1)
    \/ BeginFormat(1)
    \/ AppSelect(1)
    \/ CCSelect(1)
    \/ CCRead(1)
    \/ NDEFSelect(1)
    \/ NLENRead(1)
    \/ ReadChunk(1)
    \/ ZeroNLEN(1)
    \/ WriteChunk(1)
    \/ WriteNLEN(1)
    \/ FormatWrite(1)

Spec == Init /\ [][Next]_vars

-----------------------------------------------------------------------------
(* One Device whose driver may fail to initialize *)

\* What Driver.Initialize() of the libnfc driver returns without a reader.
ErrInitialize == "no libnfc devices detected"

\* Read(), Update(m) or Format() is called and Driver.Initialize() returns an
\* error: the procedure returns it, the deferred Driver.Close() runs.
FailedStart(s, op, m) ==
    Step(s, Finish([IdleSession EXCEPT !.op = op, !.msg = m, !.w0 = Window,
                                       !.drv = << "initialize" >>,
                                       !.f0 = StoredFile(tag)],
                   ErrInitialize, << >>), tag)

InitializeFails(s) ==
    /\ ses[s].pc \in {"idle", "done"}
    /\ Len(hist) < MaxOps
    /\ \/ FailedStart(s, "read", << >>)
       \/ FailedStart(s, "format", << >>)
       \/ \E m \in Messages : FailedStart(s, "update", m)

NextDrv ==
    \/ BeginRead(1)
    \/ BeginUpdate(1)
    \/ BeginFormat(1)
    \/ InitializeFails(1)
    \/ AppSelect(1)
    \/ CCSelect(1)
    \/ CCRead(1)
    \/ NDEFSelect(1)
    \/ NLENRead(1)
    \/ ReadChunk(1)
    \/ ZeroNLEN(1)
    \/ WriteChunk(1)
    \/ WriteNLEN(1)
    \/ FormatWrite(1)

SpecDrv == Init /\ [][NextDrv]_vars

-----------------------------------------------------------------------------
(* Two Devices on one tag: Device 1 runs one Update, Device 2 runs Reads, one
   command at a time in any order, and the transport of Device 1 may fail *)

\* The tags Device 1 may write: those Detect accepts.
ConcTags ==
    {t \in InitialTags : t.name \in {"static", "small", "large", "readonly"}}

InitConc ==
    /\ tag \in ConcTags
    /\ ses = [s \in Sessions |-> IdleSession]
    /\ hist = << >>

StartUpdate(s) ==
    /\ ses[s].op = "none"
    /\ BeginUpdate(s)

\* The command of Device s gets no answer: Driver.TransceiveBytes returns an
\* error (or the process of the Device ends), with the command applied by the
\* tag or lost before it, and the procedure stops.
Failed(s, x, applied) ==
    Step(s,
         Finish([Log(ses[s], [x EXCEPT !.err = ErrTransport])
                    EXCEPT !.win = WinAfter(ses[s], applied /\ x.err = Nil)],
                ErrTransport, << >>),
         IF applied THEN x.tag ELSE tag)

TransportError(s) ==
    /\ ses[s].pc \notin {"idle", "done"}
    /\ \E applied \in BOOLEAN : Failed(s, Call(ses[s], tag), applied)

NextConc ==
    \/ StartUpdate(1)
    \/ BeginRead(2)
    \/ \E s \in Sessions :
          \/ AppSelect(s)
          \/ CCSelect(s)
          \/ CCRead(s)
          \/ NDEFSelect(s)
          \/ NLENRead(s)
    \/ ReadChunk(2)
    \/ ZeroNLEN(1)
    \/ WriteChunk(1)
    \/ WriteNLEN(1)
    \/ TransportError(1)

SpecConc == InitConc /\ [][NextConc]_vars

-----------------------------------------------------------------------------
(* A Tag of tags/static/tag.go and what it is asked: Initialize, SetMessage,
   GetMessage, and the commands of any client *)

\* Tag.GetMessage: nothing when the file is shorter than 2 bytes or NLEN is 0,
\* else what the NDEF library parses from every byte after the NLEN field.
TagGetMessage(t) ==
    IF Len(t.file) < 2 THEN << >>
    ELSE IF BytesToUint16(<< t.file[1], t.file[2] >>) = 0 THEN << >>
    ELSE NDEFMessageUnmarshal(Slice(t.file, 2, Len(t.file))).bytes

\* The number of operations on the tag in one run.
MaxTagOps == 3

\* The zero Tag: no Initialize() and no SetMessage() yet.
ZeroTag(k) ==
    [name |-> k.name, FileID |-> k.FileID, selectedFileID |-> 0,
     file |-> << >>, cc |-> k.cc]

\* The tags a client meets: the static tag with the default and with its own
\* NDEF file id; not initialised, initialised, or holding a message.
ClientTags ==
    LET K == {k \in TagKinds : k.name \in {"static", "customid"}}
    IN  {ZeroTag(k) : k \in K} \cup {NewTag(k) : k \in K}
        \cup {TagSetMessage(NewTag(k), Msg(3, 2)) : k \in K}

\* The file ids a client selects: the two files of a tag, the NDEF file id
\* of the other kind of tag, and no file of any.
SelectIDs == {CCID, defaultNDEFFileID, 34952, 4660}

\* Places a client reads at: in the files, at their ends and beyond them.
ReadOffsets == {0, 1, 2, 5, 15, 16, 65535}
ReadLens == {0, 1, 2, 15, 65535}
WriteOffsets == {0, 2, 4, 7}
WriteData == {<< 9 >>, << 0, 0 >>, << 0, 1 >>, << 7, 8, 9 >>}

\* The commands of a client: every CAPDU here passes CAPDU.check.
ClientCAPDUs ==
    {NewSelectAPDU(id) : id \in SelectIDs}
    \cup {NewNDEFTagApplicationSelectAPDU,
          SetLc([CAPDUReset EXCEPT !.INS = INSSelect, !.P1 = 4, !.P2 = 0,
                                   !.Data = << 210, 118, 0, 0, 133, 1, 2 >>], 7),
          SetLc([CAPDUReset EXCEPT !.INS = INSSelect, !.P1 = 0, !.P2 = 12,
                                   !.Data = << 225 >>], 1),
          SetLc([CAPDUReset EXCEPT !.INS = INSSelect, !.P1 = 0, !.P2 = 12,
                                   !.Data = << 225, 4, 0 >>], 3),
          [CAPDUReset EXCEPT !.INS = INSSelect, !.P1 = 0, !.P2 = 12],
          SetLc([CAPDUReset EXCEPT !.INS = INSSelect, !.P1 = 0, !.P2 = 0,
                                   !.Data = << 225, 4 >>], 2),
          [CAPDUReset EXCEPT !.INS = 32],
          SetLc([CAPDUReset EXCEPT !.INS = 32, !.P1 = 0, !.P2 = 12,
                                   !.Data = << 225, 4 >>], 2)}
    \cup {NewReadBinaryAPDU(o, l) : o \in ReadOffsets, l \in ReadLens}
    \cup {NewUpdateBinaryAPDU(d, o) : d \in WriteData, o \in WriteOffsets}

\* The operation op on the tag, with the CAPDU it got and the reply r: the
\* tag is as r leaves it and hist holds the operation, the tag before it and
\* what it returned.
TagEvent(op, capdu, r, out) ==
    /\ tag' = r.tag
    /\ hist' = << [n |-> hist[1].n + 1, op |-> op, capdu |-> capdu,
                   rapdu |-> r.rapdu, panic |-> r.panic, before |-> tag,
                   selBefore |-> hist[1].sel,
                   sel |-> IF op = "initialize" THEN "fresh"
                           ELSE IF op = "command" /\ capdu.INS = INSSelect
                                   /\ capdu.P1 = 0
                                   /\ CommandCompleted(r.rapdu) THEN "selected"
                           ELSE hist[1].sel,
                   out |-> out] >>
    /\ UNCHANGED ses

\* tag.Initialize()
Initialize ==
    /\ hist[1].n < MaxTagOps
    /\ TagEvent("initialize", CAPDUReset,
             TagReply(TagInitialize(tag), RAPDUCommandCompleted), << >>)

\* tag.SetMessage(m): an error of m.Marshal() leaves the tag as it is.
SetMessage ==
    /\ hist[1].n < MaxTagOps
    /\ \E m \in {Msg(1, 1), Msg(4, 1), << >>} :
        TagEvent("setMessage", CAPDUReset,
                 TagReply(IF NDEFMessageMarshal(m).err # Nil THEN tag
                          ELSE TagSetMessage(tag, NDEFMessageMarshal(m).bytes),
                          RAPDUCommandCompleted),
                 m)

\* tag.GetMessage()
GetMessage ==
    /\ hist[1].n < MaxTagOps
    /\ TagEvent("getMessage", CAPDUReset, TagReply(tag, RAPDUCommandCompleted),
             TagGetMessage(tag))

\* tag.Command(capdu)
Receive ==
    /\ hist[1].n < MaxTagOps
    /\ \E capdu \in ClientCAPDUs :
        TagEvent("command", capdu, TagCommand(tag, capdu), << >>)

InitTag ==
    /\ tag \in ClientTags
    /\ ses = [s \in Sessions |-> IdleSession]
    /\ hist = << [n |-> 0, op |-> "new", capdu |-> CAPDUReset,
                  rapdu |-> RAPDUCommandCompleted, panic |-> FALSE,
                  before |-> tag, selBefore |-> "new",
                  sel |-> IF Len(tag.file) < 2 THEN "new" ELSE "fresh",
                  out |-> << >>] >>

NextTag == Initialize \/ SetMessage \/ GetMessage \/ Receive

SpecTag == InitTag /\ [][NextTag]_vars

-----------------------------------------------------------------------------
(* A Device reading a static Tag programmed with SetMessage, for messages up
   to the longest SetMessage takes.  The lengths are scaled: the tag declares
   the maximum file size LargeMaxFileSize where the static tag declares FFFEh,
   and its SetMessage takes messages up to that many bytes, as the SetMessage
   of the static tag takes messages up to FFFEh bytes. *)

\* A message of n bytes.
BigMsg(n) == [i \in 1..n |-> (i * 7) % 251]

\* Tag.SetMessage with its limit scaled, given the marshalled message.
ScaledSetMessage(t, mBytes) ==
    IF Len(mBytes) > LargeMaxFileSize THEN t
    ELSE [t EXCEPT !.file = Uint16ToBytes(Len(mBytes)) \o mBytes]

\* Every length up to the first SetMessage refuses.
BigLens == 1..(LargeMaxFileSize + 1)

ProgrammedTags ==
    {ScaledSetMessage(NewTag(k), BigMsg(n)) :
        k \in {j \in TagKinds : j.name = "large"}, n \in BigLens}

InitBig ==
    /\ tag \in ProgrammedTags
    /\ ses = [s \in Sessions |-> IdleSession]
    /\ hist = << >>

NextBig ==
    \/ BeginRead(1)
    \/ AppSelect(1)
    \/ CCSelect(1)
    \/ CCRead(1)
    \/ NDEFSelect(1)
    \/ NLENRead(1)
    \/ ReadChunk(1)

SpecBig == InitBig /\ [][NextBig]_vars

-----------------------------------------------------------------------------
(* A CAPDU that is marshalled and the bytes unmarshalled again *)

\* The shapes of Lc, Data and Le: absent, short, extended, and not allowed.
LcShapes == {<< >>, << 0 >>, << 1 >>, << 2 >>, << 0, 1 >>, << 0, 0, 0 >>,
             << 0, 0, 1 >>, << 0, 0, 2 >>, << 1, 0, 1 >>, << 0, 0, 0, 1 >>}
DataShapes == {<< >>, << 7 >>, << 0, 8 >>}
LeShapes == {<< >>, << 0 >>, << 5 >>, << 0, 0 >>, << 0, 5 >>, << 1, 0 >>,
             << 0, 0, 0 >>, << 0, 0, 5 >>, << 1, 0, 5 >>, << 0, 0, 0, 5 >>}

\* The CAPDUs a caller builds, field by field.
CodecCAPDUs ==
    {[CLA |-> 0, INS |-> ins, P1 |-> 0, P2 |-> p2, Lc |-> lc, Data |-> d, Le |-> le] :
        ins \in {INSSelect, INSUpdate}, p2 \in {0, 12},
        lc \in LcShapes, d \in DataShapes, le \in LeShapes}

InitCodec ==
    /\ tag \in {NewTag(k) : k \in {j \in TagKinds : j.name = "static"}}
    /\ ses = [s \in Sessions |-> IdleSession]
    /\ hist \in {<< [step |-> "new", a |-> a,
                      m |-> [err |-> Nil, bytes |-> << >>],
                      u |-> [err |-> Nil, n |-> 0, apdu |-> CAPDUReset]] >> :
                  a \in CodecCAPDUs}

\* a.Marshal()
Marshal ==
    /\ hist[1].step = "new"
    /\ hist' = << [hist[1] EXCEPT !.step = "marshalled",
                                  !.m = CAPDUMarshal(hist[1].a)] >>
    /\ UNCHANGED << tag, ses >>

\* Unmarshal of the bytes Marshal returned, into a new CAPDU.
Unmarshal ==
    /\ hist[1].step = "marshalled"
    /\ hist[1].m.err = Nil
    /\ hist' = << [hist[1] EXCEPT !.step = "unmarshalled",
                                  !.u = CAPDUUnmarshal(hist[1].m.bytes)] >>
    /\ UNCHANGED << tag, ses >>

NextCodec == Marshal \/ Unmarshal

SpecCodec == InitCodec /\ [][NextCodec]_vars

-----------------------------------------------------------------------------
(* What the properties are stated with *)

(* A Control TLV that is marshalled and the bytes unmarshalled again *)

\* The field values a caller may put in a Control TLV: allowed, reserved, RFU
\* and the values next to them.
TLVTypes == {0, TypeNDEFFileControlTLV, TypePropietaryFileControlTLV}
TLVLengths == {5, 6}
TLVFileIDs == {0, 1, 16128, 16383, 57602, 57603, defaultNDEFFileID, 65534, 65535}
TLVSizes == {0, 4, 5, 255, 65535}
TLVAccess == {0, 1, 127, 128, 255}

CodecControlTLVs ==
    {[T |-> t, L |-> l, FileID |-> f, MaximumFileSize |-> m,
      FileReadAccessCondition |-> r, FileWriteAccessCondition |-> w] :
        t \in TLVTypes, l \in TLVLengths, f \in TLVFileIDs, m \in TLVSizes,
        r \in TLVAccess, w \in TLVAccess}

InitTLV ==
    /\ tag \in {NewTag(k) : k \in {j \in TagKinds : j.name = "static"}}
    /\ ses = [s \in Sessions |-> IdleSession]
    /\ hist \in {<< [step |-> "new", t |-> t,
                      m |-> [err |-> Nil, bytes |-> << >>],
                      u |-> [err |-> Nil, n |-> 0, tlv |-> NoControlTLV]] >> :
                  t \in CodecControlTLVs}

\* t.Marshal()
MarshalTLV ==
    /\ hist[1].step = "new"
    /\ hist' = << [hist[1] EXCEPT !.step = "marshalled",
                                  !.m = ControlTLVMarshal(hist[1].t)] >>
    /\ UNCHANGED << tag, ses >>

\* Unmarshal of the bytes Marshal returned, into a new Control TLV.
UnmarshalTLV ==
    /\ hist[1].step = "marshalled"
    /\ hist[1].m.err = Nil
    /\ hist' = << [hist[1] EXCEPT !.step = "unmarshalled",
                                  !.u = ControlTLVUnmarshal(hist[1].m.bytes)] >>
    /\ UNCHANGED << tag, ses >>

NextTLV == MarshalTLV \/ UnmarshalTLV

SpecTLV == InitTLV /\ [][NextTLV]_vars

-----------------------------------------------------------------------------

(* A byte string that is unmarshalled as an RAPDU and marshalled again *)

\* The longest byte string received, and the bytes it is made of.
MaxRAPDULen == 4
RAPDUBytes == {0, 106, 144, 255}

ReceivedStrings == UNION {[1..n -> RAPDUBytes] : n \in 0..MaxRAPDULen}

InitRAPDU ==
    /\ tag \in {NewTag(k) : k \in {j \in TagKinds : j.name = "static"}}
    /\ ses = [s \in Sessions |-> IdleSession]
    /\ hist \in {<< [step |-> "new", s |-> s,
                      u |-> RAPDUUnmarshal(<< >>), m |-> << >>] >> :
                  s \in ReceivedStrings}

\* rapdu.Unmarshal(s)
UnmarshalRAPDU ==
    /\ hist[1].step = "new"
    /\ hist' = << [hist[1] EXCEPT !.step = "unmarshalled",
                                  !.u = RAPDUUnmarshal(hist[1].s)] >>
    /\ UNCHANGED << tag, ses >>

\* rapdu.Marshal() of what Unmarshal filled in.
MarshalRAPDU ==
    /\ hist[1].step = "unmarshalled"
    /\ hist[1].u.err = Nil
    /\ hist' = << [hist[1] EXCEPT !.step = "marshalled",
                                  !.m = RAPDUMarshal(hist[1].u.rapdu)] >>
    /\ UNCHANGED << tag, ses >>

NextRAPDU == UnmarshalRAPDU \/ MarshalRAPDU

SpecRAPDU == InitRAPDU /\ [][NextRAPDU]_vars

-----------------------------------------------------------------------------

(* A Capability Container file that is unmarshalled, marshalled and          *)
(* unmarshalled again                                                      *)

\* The most TLV blocks that follow the NDEF File Control TLV.
MaxExtraTLVs == 2

\* The bytes of the TLV blocks a tag may store after the NDEF File Control
\* TLV: a proprietary and an NDEF Control TLV, three blocks with a T that is
\* neither, a Control TLV of the wrong size and one with an RFU file id.
ExtraTLVs ==
    {LongCCExtra, << 4, 6, 0, 1, 0, 255, 0, 255 >>,
     << 0, 6, 225, 4, 0, 5, 0, 0 >>, << 3, 0 >>, << 9, 1, 7 >>,
     << 5, 5, 225, 5, 0, 128, 130 >>, << 5, 6, 255, 255, 0, 128, 0, 0 >>}

ExtraTLVLists == UNION {[1..n -> ExtraTLVs] : n \in 0..MaxExtraTLVs}

RECURSIVE Flatten(_)
Flatten(blocks) ==
    IF blocks = << >> THEN << >> ELSE Head(blocks) \o Flatten(Tail(blocks))

\* The file of a tag whose CCLEN is the length of the file plus over: right
\* (0), beyond the end of the file (1), or inside the last block (-1).
StoredCC(blocks, over) ==
    RawCC(15 + Len(Flatten(blocks)) + over, 255, 255, defaultNDEFFileID, 256,
          0, 0, Flatten(blocks))

InitCC ==
    /\ tag \in {NewTag(k) : k \in {j \in TagKinds : j.name = "static"}}
    /\ ses = [s \in Sessions |-> IdleSession]
    /\ hist \in {<< [step |-> "new", blocks |-> b, s |-> StoredCC(b, over),
                      u |-> CCUnmarshal(<< >>),
                      m |-> [err |-> Nil, bytes |-> << >>],
                      r |-> CCUnmarshal(<< >>)] >> :
                  b \in ExtraTLVLists, over \in {-1, 0, 1}}

\* cc.Unmarshal(s)
UnmarshalCC ==
    /\ hist[1].step = "new"
    /\ hist' = << [hist[1] EXCEPT !.step = "unmarshalled",
                                  !.u = CCUnmarshal(hist[1].s)] >>
    /\ UNCHANGED << tag, ses >>

\* cc.Marshal() of what Unmarshal accepted.
MarshalCC ==
    /\ hist[1].step = "unmarshalled"
    /\ hist[1].u.err = Nil
    /\ hist' = << [hist[1] EXCEPT !.step = "marshalled",
                                  !.m = CCMarshal(hist[1].u.cc)] >>
    /\ UNCHANGED << tag, ses >>

\* Unmarshal of the bytes Marshal returned, into a new Capability Container.
ReparseCC ==
    /\ hist[1].step = "marshalled"
    /\ hist[1].m.err = Nil
    /\ hist' = << [hist[1] EXCEPT !.step = "reparsed",
                                  !.r = CCUnmarshal(hist[1].m.bytes)] >>
    /\ UNCHANGED << tag, ses >>

NextCC == UnmarshalCC \/ MarshalCC \/ ReparseCC

SpecCC == InitCC /\ [][NextCC]_vars

-----------------------------------------------------------------------------

(* A received buffer that is unmarshalled as a CAPDU and marshalled again   *)

\* The longest command body received, and the bytes it is made of.
MaxBodyLen == 6
BodyBytes == {0, 1, 2, 5}

\* A SELECT header followed by every body, and the buffers too short for a
\* header.
ReceivedBuffers ==
    {Slice(<< 0, INSSelect, 0, 12 >>, 0, n) : n \in 0..3}
    \cup {<< 0, INSSelect, 0, 12 >> \o b :
            b \in UNION {[1..n -> BodyBytes] : n \in 0..MaxBodyLen}}

InitBuf ==
    /\ tag \in {NewTag(k) : k \in {j \in TagKinds : j.name = "static"}}
    /\ ses = [s \in Sessions |-> IdleSession]
    /\ hist \in {<< [step |-> "new", buf |-> b,
                      u |-> CAPDUUnmarshal(<< >>),
                      m |-> [err |-> Nil, bytes |-> << >>]] >> :
                  b \in ReceivedBuffers}

\* capdu.Unmarshal(buf)
UnmarshalBuf ==
    /\ hist[1].step = "new"
    /\ hist' = << [hist[1] EXCEPT !.step = "unmarshalled",
                                  !.u = CAPDUUnmarshal(hist[1].buf)] >>
    /\ UNCHANGED << tag, ses >>

\* capdu.Marshal() of what Unmarshal decoded.
MarshalBuf ==
    /\ hist[1].step = "unmarshalled"
    /\ hist[1].u.err = Nil
    /\ hist' = << [hist[1] EXCEPT !.step = "marshalled",
                                  !.m = CAPDUMarshal(hist[1].u.apdu)] >>
    /\ UNCHANGED << tag, ses >>

NextBuf == UnmarshalBuf \/ MarshalBuf

SpecBuf == InitBuf /\ [][NextBuf]_vars

-----------------------------------------------------------------------------

-----------------------------------------------------------------------------
(* One Device on a dummy driver of pre-programmed responses, as in
   device_test.go *)

-----------------------------------------------------------------------------
(* A TLV block with a long value that is marshalled, and its bytes that are
   unmarshalled *)

\* The lengths around the two forms of the length field: 1 byte up to FEh,
\* 3 bytes from FFh up to FFFFh.
LongLengths == {0, 1, 254, 255, 256, 65534, 65535}

\* A value of n bytes.
ValueOf(n) == [i \in 1..n |-> 0]

\* The bytes of a block as a tag stores them: T, the length l in 3 bytes
\* (FFh and l in two bytes) or in 1 byte, and n bytes of value.
StoredTLV(t, l, long, n) ==
    << t >> \o (IF long THEN << 255 >> \o Uint16ToBytes(l) ELSE << l >>)
    \o ValueOf(n)

\* What is kept of the results: the error, the lengths and the first bytes.
MarshalSummary(m) ==
    [err |-> m.err, len |-> Len(m.bytes), head |-> Slice(m.bytes, 0, Min(4, Len(m.bytes)))]

UnmarshalSummary(u) ==
    [err |-> u.err, n |-> u.n, T |-> u.tlv.T, L |-> u.tlv.L, vlen |-> Len(u.tlv.V)]

\* The lengths of value tried with the length l: too short, right, too long;
\* a length from FFh on has no 1-byte form.
ValueLens(l, long) == {k \in {l - 1, l, l + 1} : k >= 0 /\ (long \/ l < 255)}

InitLong ==
    /\ tag \in {NewTag(k) : k \in {j \in TagKinds : j.name = "static"}}
    /\ ses = [s \in Sessions |-> IdleSession]
    /\ hist \in UNION {{<< [step |-> "new", T |-> t, L |-> l, long |-> f, vlen |-> n,
                             m |-> MarshalSummary([err |-> Nil, bytes |-> << >>]),
                             u |-> UnmarshalSummary(TLVUnmarshal(<< >>))] >> :
                         t \in 0..5, n \in ValueLens(l, f)} :
                       l \in LongLengths, f \in BOOLEAN}

\* tlv.Marshal() of the TLV with the fields T, L and a value of vlen bytes.
MarshalLong ==
    /\ hist[1].step = "new"
    /\ hist' = << [hist[1] EXCEPT
                      !.step = "marshalled",
                      !.m = MarshalSummary(TLVMarshal([T |-> hist[1].T, L |-> hist[1].L,
                                                       V |-> ValueOf(hist[1].vlen)]))] >>
    /\ UNCHANGED << tag, ses >>

\* tlv.Unmarshal(buf) of the stored bytes.
UnmarshalLong ==
    /\ hist[1].step = "new"
    /\ hist' = << [hist[1] EXCEPT
                      !.step = "unmarshalled",
                      !.u = UnmarshalSummary(TLVUnmarshal(StoredTLV(hist[1].T, hist[1].L,
                                                                    hist[1].long, hist[1].vlen)))] >>
    /\ UNCHANGED << tag, ses >>

NextLong == MarshalLong \/ UnmarshalLong

SpecLong == InitLong /\ [][NextLong]_vars

-----------------------------------------------------------------------------
(* The 16-bit arithmetic of Read and Update on tags of every size: the
   lengths, totals and offsets of the loops, without the bytes moved *)

\* The maximum file sizes, the lengths (NLEN of a Read, the message length of
\* an Update) and the limits (MLe of a Read, MLc of an Update) at the ends of
\* their ranges.
ArithMaxSizes == {0, 4, 5, 6, 65534, 65535}
ArithLengths == {0, 1, 2, 3, 4, 65532, 65533, 65534, 65535, 65536}
ArithLimits == {1, 255, 32767, 32768, 65534, 65535}

\* The tagState Detect fills from the Capability Container.
ArithState(h) ==
    [NLEN |-> IF h.op = "read" THEN h.n ELSE 0, MaxReadBinaryLen |-> h.lim,
     MaxUpdateBinaryLen |-> h.lim, MaxNDEFLen |-> h.max, ReadOnly |-> FALSE]

\* A Read of a file whose NLEN field is n, an Update of a message of n
\* bytes; NLEN has two bytes.
ArithInputs ==
    {r \in [op : {"read", "update"}, max : ArithMaxSizes, n : ArithLengths,
            lim : ArithLimits] :
        r.op = "update" \/ r.n <= 65535}

InitArith ==
    /\ tag \in {NewTag(k) : k \in {j \in TagKinds : j.name = "static"}}
    /\ ses = [s \in Sessions |-> IdleSession]
    /\ hist \in {<< [step |-> "new", op |-> r.op, max |-> r.max, n |-> r.n,
                      lim |-> r.lim, limit |-> 0, len |-> 0, chunk |-> 0,
                      total |-> 0, offset |-> 0, sum |-> 0, at |-> 0] >> :
                  r \in ArithInputs}

\* The checks before the loop: ControlTLV.check of the maximum file size,
\* then NLEN (Read) or the message length (Update) against MaxNDEFLen-2;
\* the length goes to 16 bits and the first readLen / writeLen is set.
ChecksArith ==
    /\ hist[1].step = "new"
    /\ hist' = << IF ControlTLVCheck([NoControlTLV EXCEPT
                                         !.T = 4, !.L = 6, !.FileID = defaultNDEFFileID,
                                         !.MaximumFileSize = hist[1].max]) # Nil
                     \/ hist[1].n > MaxMessageLen(ArithState(hist[1]))
                  THEN [hist[1] EXCEPT !.step = "failed"]
                  ELSE [hist[1] EXCEPT
                           !.step = "loop",
                           !.limit = MaxMessageLen(ArithState(hist[1])),
                           !.len = hist[1].n % 65536,
                           !.chunk = FirstChunkLen(hist[1].lim, hist[1].n % 65536)] >>
    /\ UNCHANGED << tag, ses >>

\* One round of the loop: the length of the round, the offset of its command
\* and the new total, in 16 bits; sum and at are the same without the
\* 16-bit wrap.
RoundArith ==
    /\ hist[1].step = "loop"
    /\ hist[1].total < hist[1].len
    /\ hist' = << [hist[1] EXCEPT
                      !.chunk = NextChunkLen(hist[1].len, hist[1].total, hist[1].chunk),
                      !.offset = ChunkOffset(hist[1].total),
                      !.at = 2 + hist[1].total,
                      !.total = (hist[1].total
                                 + NextChunkLen(hist[1].len, hist[1].total, hist[1].chunk))
                                % 65536,
                      !.sum = hist[1].total
                              + NextChunkLen(hist[1].len, hist[1].total, hist[1].chunk)] >>
    /\ UNCHANGED << tag, ses >>

\* The loop ends.
EndArith ==
    /\ hist[1].step = "loop"
    /\ ~(hist[1].total < hist[1].len)
    /\ hist' = << [hist[1] EXCEPT !.step = "done"] >>
    /\ UNCHANGED << tag, ses >>

NextArith == ChecksArith \/ RoundArith \/ EndArith

SpecArith == InitArith /\ [][NextArith]_vars

-----------------------------------------------------------------------------
(* The length of the NDEF file of a static Tag under SELECT and UPDATE_BINARY
   at every offset: the length is kept, not the bytes *)

\* Offsets of UPDATE_BINARY at the start of the file and at the end of the
\* range of P1-P2, and the numbers of bytes written.
GrowOffsets == {0, 2, 7, 65532, 65533, 65534, 65535}
GrowDataLens == {1, 2, 3}

\* The static tag with an NDEF file of len bytes and the file sel selected.
GrownTag(len, sel) ==
    [name |-> "static", FileID |-> 0, selectedFileID |-> sel,
     file |-> SubSeq(ValueOf(len), 1, len),
     cc |-> CCMarshal(StaticTagCC(defaultNDEFFileID)).bytes]

\* What is kept of the reply r to the command ins at offset, with n bytes.
GrowEvent(ins, offset, n, r) ==
    << [k |-> hist[1].k + 1, ins |-> ins, offset |-> offset, n |-> n,
        len |-> Len(r.tag.file), sel |-> r.tag.selectedFileID,
        rapdu |-> r.rapdu] >>

\* The tag after Initialize() or after SetMessage of 3 bytes.
InitGrow ==
    /\ tag \in {NewTag(k) : k \in {j \in TagKinds : j.name = "static"}}
    /\ ses = [s \in Sessions |-> IdleSession]
    /\ hist \in {<< [k |-> 0, ins |-> 0, offset |-> 0, n |-> 0, len |-> l,
                      sel |-> 0, rapdu |-> RAPDUCommandCompleted] >> :
                  l \in {2, 5}}

\* tag.Command(capdu) with a SELECT by id
SelectGrow ==
    /\ hist[1].k < MaxTagOps
    /\ \E id \in {CCID, defaultNDEFFileID} :
          hist' = GrowEvent(INSSelect, 0, 2,
                            TagCommand(GrownTag(hist[1].len, hist[1].sel),
                                       NewSelectAPDU(id)))
    /\ UNCHANGED << tag, ses >>

\* tag.Command(capdu) with an UPDATE_BINARY
UpdateGrow ==
    /\ hist[1].k < MaxTagOps
    /\ \E o \in GrowOffsets, n \in GrowDataLens :
          hist' = GrowEvent(INSUpdate, o, n,
                            TagCommand(GrownTag(hist[1].len, hist[1].sel),
                                       NewUpdateBinaryAPDU(SubSeq(ValueOf(n), 1, n), o)))
    /\ UNCHANGED << tag, ses >>

NextGrow == SelectGrow \/ UpdateGrow

SpecGrow == InitGrow /\ [][NextGrow]_vars

StatusOK == << 144, 0 >>

\* The responses of a tag that holds the message Msg(3, 2), one per command
\* of a Read, and status words for the commands of an Update after Detect.
GoodResponses ==
    << StatusOK,
       StatusOK,
       RawCC(15, MinMLe, SmallMLc, defaultNDEFFileID, SmallMaxFileSize, 0, 0, << >>)
           \o StatusOK,
       StatusOK,
       << 0, 3 >> \o StatusOK,
       Msg(3, 2) \o StatusOK,
       StatusOK,
       StatusOK >>

\* What a response is replaced with: File not found, an unknown status, a
\* response too short for a status, a Capability Container of CCLEN 14, and
\* Command completed with a body of 0, 1, 2 and 4 bytes.
BadResponses ==
    { << 106, 130 >>, << 0, 0 >>, << 144 >>,
      RawCC(14, MinMLe, SmallMLc, defaultNDEFFileID, SmallMaxFileSize, 0, 0, << >>)
          \o StatusOK,
      StatusOK, << 0 >> \o StatusOK, << 7, 8 >> \o StatusOK,
      << 7, 8, 9, 10 >> \o StatusOK }

\* The response sets: the good one, the good one with one response of Detect
\* or of the first command after it replaced, the good one cut short.
ResponseSets ==
    {GoodResponses}
    \cup {[GoodResponses EXCEPT ![k] = b] : k \in 1..6, b \in BadResponses}
    \cup {SubSeq(GoodResponses, 1, k) : k \in 0..5}

DummyDrivers ==
    {[name |-> "dummy", ReceiveBytes |-> r, ReceiveBytesPos |-> 0] : r \in ResponseSets}

InitDummy ==
    /\ tag \in DummyDrivers
    /\ ses = [s \in Sessions |-> IdleSession]
    /\ hist = << >>

SpecDummy == InitDummy /\ [][Next]_vars

\* The place a command reads or writes at.
Offset(e) == BytesToUint16(<< e.capdu.P1, e.capdu.P2 >>)

IsUpdateBinary(e) == e.capdu.INS = INSUpdate

\* A READ_BINARY of message bytes: after the 2 bytes of NLEN.
IsPayloadRead(e) == e.capdu.INS = INSRead /\ Offset(e) >= 2

\* A SELECT by file id of another file than the Capability Container.
IsNDEFFileSelect(e) ==
    /\ e.capdu.INS = INSSelect
    /\ e.capdu.P1 = 0
    /\ e.capdu.Data # Uint16ToBytes(CCID)

\* The data of the commands i..j of a log, one after the other.
RECURSIVE ConcatData(_, _, _)
ConcatData(log, i, j) ==
    IF i > j THEN << >>
    ELSE log[i].capdu.Data \o ConcatData(log, i + 1, j)

\* What the Capability Container file of the tag declares.
DeclaredCC == CCUnmarshal(tag.cc)
DeclaredCCLEN == BytesToUint16(<< tag.cc[1], tag.cc[2] >>)
DeclaredMaxFileSize == BytesToUint16(<< tag.cc[12], tag.cc[13] >>)
DeclaredReadAccess == tag.cc[14]
DeclaredWriteAccess == tag.cc[15]

\* NLEN as the NDEF file of the tag holds it.
StoredNLEN == BytesToUint16(<< tag.file[1], tag.file[2] >>)

\* A tag that Detect accepts and Update may write.
WritableTag ==
    /\ DeclaredCCLEN = 15
    /\ DeclaredCC.err = Nil
    /\ DeclaredReadAccess = 0
    /\ DeclaredWriteAccess = 0
    /\ StoredNLEN <= DeclaredMaxFileSize - 2

Returned(s, op) == ses[s].op = op /\ ses[s].pc = "done"

-----------------------------------------------------------------------------
(* Properties of one Device working on one tag *)

\* C1: an Update(m) that returns success, followed by a Read on the same tag:
\* the Read succeeds and returns exactly the bytes of m.
C1_UpdateThenRead ==
    \A i \in 1..(Len(hist) - 1) :
        (hist[i].op = "update" /\ hist[i].err = Nil /\ hist[i + 1].op = "read")
        => (hist[i + 1].err = Nil /\ hist[i + 1].out = hist[i].msg)

\* C1, its case: a message of three READ_BINARY chunks and two UPDATE_BINARY
\* chunks was written and read back, within the declared maximum file size.
C1_Witness ==
    /\ Len(hist) = 2
    /\ hist[1].op = "update" /\ hist[1].err = Nil
    /\ Len(hist[1].msg) = 2 * MinMLe + 1
    /\ Len(hist[1].msg) = DeclaredMaxFileSize - 2
    /\ hist[2].op = "read" /\ hist[2].err = Nil
    /\ hist[2].out = hist[1].msg

\* C2: in an Update, the first UPDATE_BINARY writes 0000h at offset 0; every
\* other one is a payload chunk, sent after it, or the write of the real NLEN
\* at offset 0, which is the last command of the run and is sent only after
\* every command before it was answered Command completed and the chunks
\* written make up the whole message.
C2_WriteOrder ==
    \A s \in Sessions :
        LET log == ses[s].sent
            U == {i \in 1..Len(log) : IsUpdateBinary(log[i])}
            first == CHOOSE i \in U : \A j \in U : i <= j
        IN  (ses[s].op = "update" /\ U # {}) =>
            /\ Offset(log[first]) = 0
            /\ log[first].capdu.Data = << 0, 0 >>
            /\ \A i \in U \ {first} :
                  \/ /\ Offset(log[i]) >= 2
                     /\ i > first
                  \/ /\ Offset(log[i]) = 0
                     /\ log[i].capdu.Data = Uint16ToBytes(Len(ses[s].msg))
                     /\ i = Len(log)
                     /\ \A j \in first..(i - 1) : log[j].err = Nil
                     /\ ConcatData(log, first + 1, i - 1) = ses[s].msg
            /\ (ses[s].pc = "done" /\ ses[s].err = Nil) =>
                  (Len(log) > first /\ Offset(log[Len(log)]) = 0)

\* C2, its case: an Update that wrote its message in two chunks returned.
C2_Witness ==
    /\ Returned(1, "update") /\ ses[1].err = Nil
    /\ Len(ses[1].sent) = 9
    /\ Offset(ses[1].sent[6]) = 0
    /\ Offset(ses[1].sent[7]) = 2
    /\ Offset(ses[1].sent[8]) = 2 + SmallMLc
    /\ Offset(ses[1].sent[9]) = 0

\* C5: on a tag that may be written, Update of a message of exactly
\* max_file_size - 2 bytes succeeds and Update of a message of exactly
\* max_file_size - 1 bytes fails with the message-too-large error.
C5_MaximumPayload ==
    \A i \in 1..Len(hist) :
        (hist[i].op = "update" /\ WritableTag) =>
            /\ Len(hist[i].msg) = DeclaredMaxFileSize - 2 => hist[i].err = Nil
            /\ Len(hist[i].msg) = DeclaredMaxFileSize - 1 => hist[i].err = ErrTooLarge

\* C5, its case: both Updates ran on one tag.
C5_Witness ==
    /\ Len(hist) = 2
    /\ WritableTag
    /\ hist[1].op = "update" /\ Len(hist[1].msg) = DeclaredMaxFileSize - 2
    /\ hist[1].err = Nil
    /\ hist[2].op = "update" /\ Len(hist[2].msg) = DeclaredMaxFileSize - 1
    /\ hist[2].err = ErrTooLarge
    /\ StoredNLEN = DeclaredMaxFileSize - 2

\* C6: after a Format that succeeds, the next Read on the tag fails with the
\* no-NDEF-message error.
C6_FormatThenRead ==
    \A i \in 1..(Len(hist) - 1) :
        (hist[i].op = "format" /\ hist[i].err = Nil /\ hist[i + 1].op = "read")
        => (hist[i + 1].err = ErrNoNDEF /\ hist[i + 1].out = << >>)

\* C6, its case: the tag held a message, whose bytes Format left in the file.
C6_Witness ==
    /\ Len(hist) = 2
    /\ hist[1].op = "format" /\ hist[1].err = Nil
    /\ hist[2].op = "read" /\ hist[2].err = ErrNoNDEF
    /\ Slice(tag.file, 2, Len(tag.file)) = Msg(3, 2)

\* C8: a Read of a message longer than MLe is made of ceil(nlen / mle)
\* payload READ_BINARY, at the offsets 2, 2 + mle, 2 + 2 mle, ..., each
\* asking for min(mle, bytes still missing), and returns the bytes
\* [2, 2 + nlen) of the NDEF file.
C8_ChunkedRead ==
    \A s \in Sessions :
        LET nlen == ses[s].st.NLEN
            mle == ses[s].st.MaxReadBinaryLen
            P == SelectSeq(ses[s].sent, IsPayloadRead)
        IN  (Returned(s, "read") /\ ses[s].err = Nil /\ nlen > mle) =>
            /\ (Len(P) - 1) * mle < nlen
            /\ nlen <= Len(P) * mle
            /\ \A k \in 1..Len(P) :
                  /\ Offset(P[k]) = 2 + (k - 1) * mle
                  /\ GetLe(P[k].capdu) = Min(mle, nlen - (k - 1) * mle)
            /\ ses[s].out = Slice(tag.file, 2, 2 + nlen)

\* C8, its case: a message read in three chunks, the last one shorter.
C8_Witness ==
    /\ Returned(1, "read") /\ ses[1].err = Nil
    /\ ses[1].st.NLEN = 2 * ses[1].st.MaxReadBinaryLen + 1
    /\ Len(SelectSeq(ses[1].sent, IsPayloadRead)) = 3
    /\ Len(ses[1].out) = ses[1].st.NLEN

\* C9: two Reads one after the other return the same: the same bytes, or the
\* same error.
C9_ReadTwice ==
    \A i \in 1..(Len(hist) - 1) :
        (hist[i].op = "read" /\ hist[i + 1].op = "read")
        => (hist[i + 1].out = hist[i].out /\ hist[i + 1].err = hist[i].err)

\* C9, its case: both Reads returned the message of the tag.
C9_Witness ==
    /\ Len(hist) = 2
    /\ hist[1].op = "read" /\ hist[1].err = Nil /\ hist[1].out = Msg(3, 2)
    /\ hist[2].op = "read" /\ hist[2].err = Nil /\ hist[2].out = Msg(3, 2)

\* C7: on a tag whose valid Capability Container is longer than 15 bytes and
\* that holds a message, Detect sends a READ_BINARY(15, cclen - 15) after the
\* one of the first 15 bytes, and the Read succeeds.
C7_LongCCRead ==
    \A s \in Sessions :
        (/\ Returned(s, "read")
         /\ DeclaredCCLEN > 15 /\ DeclaredCC.err = Nil /\ DeclaredReadAccess = 0
         /\ StoredNLEN > 0)
        => /\ ses[s].err = Nil
           /\ \E i \in 1..Len(ses[s].sent) :
                 /\ ses[s].sent[i].capdu.INS = INSRead
                 /\ Offset(ses[s].sent[i]) = 15
                 /\ GetLe(ses[s].sent[i].capdu) = DeclaredCCLEN - 15

\* C10 as the specification states it: whenever the read access byte of the
\* NDEF File Control TLV is not 00h, Detect fails with the
\* NDEF-file-not-readable error and sends no SELECT and no READ_BINARY for the
\* NDEF file.
C10_NotReadableAsStated ==
    \A s \in Sessions :
        (ses[s].pc = "done" /\ DeclaredReadAccess # 0)
        => /\ ses[s].err = ErrNotReadable
           /\ \A i \in 1..Len(ses[s].sent) :
                 /\ ~IsNDEFFileSelect(ses[s].sent[i])
                 /\ ses[s].sent[i].capdu.INS = INSRead => i = 3

\* C10: with a read access byte of 80h..FFh Detect fails with the
\* NDEF-file-not-readable error, with one of 01h..7Fh (RFU) it fails with the
\* error of the Capability Container check; in both cases no SELECT and no
\* READ_BINARY for the NDEF file is sent, at any point of the procedure.
C10_NotReadable ==
    \A s \in Sessions :
        (ses[s].op # "none" /\ DeclaredReadAccess # 0)
        => /\ \A i \in 1..Len(ses[s].sent) :
                 /\ ~IsNDEFFileSelect(ses[s].sent[i])
                 /\ ses[s].sent[i].capdu.INS = INSRead => i = 3
           /\ (ses[s].pc = "done" /\ DeclaredReadAccess >= 128)
                 => ses[s].err = ErrNotReadable
           /\ (ses[s].pc = "done" /\ DeclaredReadAccess < 128)
                 => ses[s].err = "ControlTLV.check: Read Access Condition has RFU value"

\* C10, its case: a Read on a tag with the read access byte 80h stopped after
\* the read of the Capability Container.
C10_Witness ==
    /\ Returned(1, "read")
    /\ DeclaredReadAccess = 128
    /\ ses[1].err = ErrNotReadable
    /\ Len(ses[1].sent) = 3
    /\ ses[1].sent[3].capdu.INS = INSRead /\ ses[1].sent[3].err = Nil

\* C11: when the NLEN read from the NDEF file is greater than the declared
\* maximum file size minus 2, the procedure (Read, Update or Format) returns
\* the invalid-state error and the READ_BINARY of NLEN, its fifth command, is
\* the last command it sends.
C11_InvalidState ==
    \A s \in Sessions :
        (/\ ses[s].op # "none"
         /\ DeclaredCC.err = Nil
         /\ StoredNLEN > DeclaredMaxFileSize - 2
         /\ Len(ses[s].sent) >= 5
         /\ ses[s].sent[5].err = Nil)
        => /\ ses[s].pc = "done"
           /\ ses[s].err = ErrInvalidState
           /\ ses[s].out = << >>
           /\ Len(ses[s].sent) = 5

\* C11, its case: an Update and then a Format met a tag whose NLEN is one
\* more than the largest message it has room for; both stopped after the
\* read of NLEN and the tag is as it was.
C11_Witness ==
    /\ Len(hist) = 2
    /\ hist[1].op = "update" /\ hist[1].err = ErrInvalidState
    /\ Returned(1, "format") /\ ses[1].err = ErrInvalidState
    /\ Len(ses[1].sent) = 5
    /\ ses[1].sent[5].capdu.INS = INSRead /\ ses[1].sent[5].err = Nil
    /\ StoredNLEN = DeclaredMaxFileSize - 1
    /\ tag.file = Uint16ToBytes(SmallMaxFileSize - 1) \o Msg(SmallMaxFileSize - 1, 2)

-----------------------------------------------------------------------------
(* Properties of a Read and an Update on one tag at the same time *)

\* C3: from the moment the first write of Update (NLEN = 0) is applied until
\* its last write (the real NLEN) is applied, also when Update stopped in
\* between on a transport error, on a status word other than Command
\* completed, or with its process, the NLEN field of the tag is 0; and a Read
\* that starts and returns in this time fails with the no-NDEF-message error
\* and returns no bytes.
C3_SentinelWindow ==
    /\ Window = "open" => StoredNLEN = 0
    /\ \A s \in Sessions :
          (Returned(s, "read") /\ ses[s].w0 = "open" /\ ses[s].w1 = "open")
          => (ses[s].err = ErrNoNDEF /\ ses[s].out = << >>)

\* C3, its case: the Update stopped on a transport error after it wrote
\* bytes of the new message, and a whole Read ran after that.
C3_Witness ==
    /\ Returned(1, "update") /\ ses[1].err = ErrTransport /\ ses[1].win = "open"
    /\ Returned(2, "read") /\ ses[2].w0 = "open" /\ ses[2].w1 = "open"
    /\ ses[2].err = ErrNoNDEF
    /\ Len(hist) = 2 /\ hist[1].op = "update"
    /\ StoredNLEN = 0
    /\ Len(ses[1].msg) >= SmallMLc /\ Len(tag.file) >= 2 + SmallMLc
    /\ Slice(tag.file, 2, 2 + SmallMLc) = Slice(ses[1].msg, 0, SmallMLc)

\* Bytes that are neither the message old nor the message new but are made
\* of bytes of the two, at least one of new: a mix of old and new, or a part
\* of new.
PartlyWritten(out, old, new) ==
    /\ out \notin {old, new}
    /\ \A k \in 1..Len(out) :
          \/ k <= Len(new) /\ out[k] = new[k]
          \/ k <= Len(old) /\ out[k] = old[k]
    /\ \E k \in 1..Len(out) : k <= Len(new) /\ out[k] = new[k]

\* C4 as the specification states it: in every interleaving of a Read and an
\* Update, no Read succeeds with a partially written message.
C4_NoPartialReadAsStated ==
    \A s \in Sessions :
        (Returned(s, "read") /\ ses[s].err = Nil)
        => ~PartlyWritten(ses[s].out, Msg(3, 2), ses[1].msg)

\* C4: a Read that reads NLEN after the first write of Update (NLEN = 0) was
\* applied fails, or it read NLEN after the last write of Update and returns
\* the message Update wrote, whole.
C4_NoPartialRead ==
    \A s \in Sessions :
        (Returned(s, "read") /\ ses[s].err = Nil /\ ses[s].wn # "none")
        => (ses[s].wn = "closed" /\ ses[s].out = ses[1].msg)

\* C4, its case: the Read started before the Update had written anything and
\* read NLEN after the last write of the Update.
C4_Witness ==
    /\ Returned(2, "read") /\ ses[2].err = Nil
    /\ ses[2].w0 = "none" /\ ses[2].wn = "closed"
    /\ ses[1].op = "update" /\ Len(ses[1].msg) > SmallMLc
    /\ ses[2].out = ses[1].msg
    /\ ses[2].out # Msg(3, 2)

-----------------------------------------------------------------------------
(* Properties of the Tag, whatever the client sends *)

\* The last operation on the tag, and the tag before it.
Ev == hist[1]
EvOffset == BytesToUint16(<< Ev.capdu.P1, Ev.capdu.P2 >>)

\* The last operation was the command ins, received by an initialised tag.
Commanded(ins) ==
    /\ Ev.op = "command"
    /\ Ev.capdu.INS = ins
    /\ Len(Ev.before.file) >= 2

\* The bytes of the file selected in tag t.
SelectedFile(t) == IF t.selectedFileID = CCID THEN t.cc ELSE t.file

\* The id of the NDEF file of tag t.
NDEFFileIDOf(t) == IF t.FileID = 0 THEN defaultNDEFFileID ELSE t.FileID

\* C12: an UPDATE_BINARY received while the Capability Container is the
\* selected file is answered with CommandNotAllowed (6900h) and changes
\* neither the Capability Container nor the NDEF file.
C12_UpdateOnCC ==
    (Commanded(INSUpdate) /\ Ev.before.selectedFileID = CCID)
    => /\ Ev.rapdu = RAPDUCommandNotAllowed
       /\ tag.cc = Ev.before.cc
       /\ tag.file = Ev.before.file

\* C13: a READ_BINARY received while a file is selected is answered with
\* CommandCompleted and the bytes of the file from the offset P1P2 to the
\* offset plus Le, cut at the end of the file: no bytes when the offset is at
\* the end of the file or beyond it; a READ_BINARY received while no file is
\* selected is answered with FileNotFound.
C13_ReadWindow ==
    Commanded(INSRead) =>
        IF Ev.before.selectedFileID = 0
        THEN Ev.rapdu = RAPDUFileNotFound /\ ~Ev.panic
        ELSE /\ ~Ev.panic
             /\ CommandCompleted(Ev.rapdu)
             /\ Ev.rapdu.ResponseBody =
                   IF EvOffset >= Len(SelectedFile(Ev.before)) THEN << >>
                   ELSE Slice(SelectedFile(Ev.before), EvOffset,
                              Min(EvOffset + GetLe(Ev.capdu),
                                  Len(SelectedFile(Ev.before))))

\* C14: a SELECT with P1 = 00h and P2 = 0Ch received by an initialised tag:
\* with Lc other than 2 the answer is 6A87h and the selection is as before;
\* with Lc = 2 and the id of the Capability Container or of the NDEF file of
\* the tag, that id becomes the selected file and the answer is
\* CommandCompleted; with any other id the answer is FileNotFound and the
\* selection is as before.
C14_SelectByID ==
    (Commanded(INSSelect) /\ Ev.capdu.P1 = 0 /\ Ev.capdu.P2 = 12)
    => /\ tag.file = Ev.before.file
       /\ IF GetLc(Ev.capdu) # 2
          THEN /\ Ev.rapdu = [ResponseBody |-> << >>, SW1 |-> 106, SW2 |-> 135]
               /\ tag.selectedFileID = Ev.before.selectedFileID
          ELSE IF BytesToUint16(<< Ev.capdu.Data[1], Ev.capdu.Data[2] >>)
                     \in {CCID, NDEFFileIDOf(Ev.before)}
          THEN /\ Ev.rapdu = RAPDUCommandCompleted
               /\ tag.selectedFileID =
                     BytesToUint16(<< Ev.capdu.Data[1], Ev.capdu.Data[2] >>)
          ELSE /\ Ev.rapdu = RAPDUFileNotFound
               /\ tag.selectedFileID = Ev.before.selectedFileID

\* C14, its case: a tag with its own NDEF file id and the Capability
\* Container selected got, as third operation, the SELECT of its NDEF file.
C14_Witness ==
    /\ Ev.n = 3
    /\ Commanded(INSSelect) /\ Ev.capdu.P1 = 0 /\ Ev.capdu.P2 = 12
    /\ tag.FileID = 34952
    /\ Ev.before.selectedFileID = CCID
    /\ Ev.capdu.Data = << 136, 136 >>
    /\ Ev.rapdu = RAPDUCommandCompleted
    /\ tag.selectedFileID = 34952

\* C15: an UPDATE_BINARY with offset o and data d that is answered
\* CommandCompleted leaves the NDEF file with d at the bytes o .. o+|d|-1,
\* every other byte it had as it was, zeros between its old end and o, and
\* the length max(old length, o+|d|); nothing else of the tag changes.
C15_UpdateWrites ==
    (Commanded(INSUpdate) /\ CommandCompleted(Ev.rapdu))
    => /\ Len(tag.file) = IF EvOffset + Len(Ev.capdu.Data) > Len(Ev.before.file)
                          THEN EvOffset + Len(Ev.capdu.Data)
                          ELSE Len(Ev.before.file)
       /\ \A k \in 0..(Len(tag.file) - 1) :
             tag.file[k + 1] =
                IF k >= EvOffset /\ k < EvOffset + Len(Ev.capdu.Data)
                THEN Ev.capdu.Data[k - EvOffset + 1]
                ELSE IF k < Len(Ev.before.file) THEN Ev.before.file[k + 1]
                ELSE 0
       /\ tag = [Ev.before EXCEPT !.file = tag.file]

\* C15, its case: three bytes written two bytes beyond the end of a file of
\* five bytes, which has eight bytes more afterwards, two of them zeros.
C15_Witness ==
    /\ Commanded(INSUpdate) /\ CommandCompleted(Ev.rapdu)
    /\ Len(Ev.before.file) = 5
    /\ EvOffset = 7
    /\ Ev.capdu.Data = << 7, 8, 9 >>
    /\ tag.file = Ev.before.file \o << 0, 0, 7, 8, 9 >>

\* C16: a Tag that is not initialised answers every CAPDU with InactiveState
\* (69h 01h) and is as it was.
C16_InactiveState ==
    (Ev.op = "command" /\ Len(Ev.before.file) < 2)
    => /\ Ev.rapdu = [ResponseBody |-> << >>, SW1 |-> 105, SW2 |-> 1]
       /\ ~Ev.panic
       /\ tag = Ev.before

\* C16, its case: a tag that was never initialised got an UPDATE_BINARY as
\* its third command.
C16_Witness ==
    /\ Ev.n = 3
    /\ Ev.op = "command" /\ Ev.capdu.INS = INSUpdate
    /\ Ev.before.file = << >>
    /\ Ev.rapdu.SW1 = 105 /\ Ev.rapdu.SW2 = 1
    /\ tag.file = << >>

\* C17: after Initialize() on a tag in any state the NDEF file is 00 00 and
\* no file is selected: a READ_BINARY or UPDATE_BINARY received before a
\* SELECT by id succeeded again is answered with FileNotFound.
C17_InitializeResets ==
    /\ Ev.op = "initialize"
         => (tag.file = << 0, 0 >> /\ tag.selectedFileID = 0)
    /\ (Ev.op = "command" /\ Ev.capdu.INS \in {INSRead, INSUpdate}
          /\ Ev.selBefore = "fresh")
         => Ev.rapdu = RAPDUFileNotFound

\* C18: GetMessage returns the NLEN bytes that follow the NLEN field and no
\* byte stored beyond them, and nothing when the file has fewer than 2 bytes
\* or NLEN is 0.
C18_GetMessage ==
    Ev.op = "getMessage"
    => Ev.out = IF Len(tag.file) < 2 THEN << >>
                ELSE IF StoredNLEN = 0 THEN << >>
                ELSE Slice(tag.file, 2, Min(2 + StoredNLEN, Len(tag.file)))

-----------------------------------------------------------------------------
(* Properties of a Read of a Tag programmed with SetMessage *)

\* C19: a Read, through the software-tag driver, of a static tag that
\* SetMessage programmed with a message (of any length it accepts, up to the
\* maximum file size the tag declares) succeeds and returns exactly that
\* message.
C19_SetMessageThenRead ==
    \A i \in 1..Len(hist) :
        (hist[i].op = "read" /\ Len(tag.file) > 2)
        => /\ hist[i].err = Nil
           /\ hist[i].out = Slice(tag.file, 2, Len(tag.file))

-----------------------------------------------------------------------------
(* Properties of the CAPDU codec *)

\* C20: for every CAPDU a on which Marshal succeeds, Unmarshal of the bytes
\* succeeds and gives a CAPDU with the same CLA, INS, P1, P2, Lc bytes, Data
\* and Le bytes as a.
C20_CAPDURoundTrip ==
    hist[1].step = "unmarshalled"
    => /\ hist[1].u.err = Nil
       /\ hist[1].u.apdu = hist[1].a

\* The value a well-shaped Lc stands for: 0 when absent, the byte of a 1-byte
\* Lc, the last two bytes of a 3-byte Lc.
LcValue(lc) ==
    CASE Len(lc) = 1 -> lc[1]
      [] Len(lc) = 3 -> lc[2] * 256 + lc[3]
      [] OTHER -> 0

\* A CAPDU that breaks a shape invariant of Lc, Le and Data.
BreaksShape(a) ==
    \/ Len(a.Lc) = 1 /\ a.Lc[1] = 0
    \/ Len(a.Lc) = 2
    \/ Len(a.Lc) = 3 /\ (a.Lc[1] # 0 \/ a.Lc = << 0, 0, 0 >>)
    \/ Len(a.Lc) > 3
    \/ Len(a.Le) = 2 /\ Len(a.Lc) = 0
    \/ Len(a.Le) = 3 /\ (Len(a.Lc) # 0 \/ a.Le[1] # 0)
    \/ Len(a.Le) > 3
    \/ LcValue(a.Lc) # Len(a.Data)

\* C21: Marshal fails for every CAPDU that breaks a shape invariant: a 1-byte
\* Lc of 0, a 2-byte Lc, a 3-byte Lc not starting with 0 or all zero, an Lc of
\* more than 3 bytes, a 2-byte Le without Lc, a 3-byte Le with an Lc or not
\* starting with 0, an Le of more than 3 bytes, an Lc value that is not the
\* data length.
C21_MarshalBad ==
    (hist[1].step = "marshalled" /\ BreaksShape(hist[1].a))
    => hist[1].m.err # Nil

\* Marshal was refused for a well-shaped Lc and Le whose Lc value is not the
\* data length.
C21_Witness ==
    /\ hist[1].step = "marshalled"
    /\ hist[1].a.Lc = << 0, 0, 2 >>
    /\ hist[1].a.Data = << 7 >>
    /\ hist[1].a.Le = << 0, 5 >>
    /\ hist[1].m.err # Nil

\* The body of a buffer, and its first three bytes, zero when missing.
BodyOf(buf) == Slice(buf, 4, Len(buf))
BodyByte(buf, k) == IF Len(buf) - 4 >= k THEN buf[4 + k] ELSE 0
BodyExt(buf) == BodyByte(buf, 2) * 256 + BodyByte(buf, 3)

\* The cases of ISO 7816-4 table 5 that the body of a buffer matches.
BodyCases(buf) ==
    {c \in {"1", "2S", "3S", "4S", "2E", "3E", "4E"} :
        \/ c = "1"  /\ Len(BodyOf(buf)) = 0
        \/ c = "2S" /\ Len(BodyOf(buf)) = 1
        \/ c = "3S" /\ Len(BodyOf(buf)) = 1 + BodyByte(buf, 1) /\ BodyByte(buf, 1) # 0
        \/ c = "4S" /\ Len(BodyOf(buf)) = 2 + BodyByte(buf, 1) /\ BodyByte(buf, 1) # 0
        \/ c = "2E" /\ Len(BodyOf(buf)) = 3 /\ BodyByte(buf, 1) = 0
        \/ c = "3E" /\ Len(BodyOf(buf)) = 3 + BodyExt(buf)
                    /\ BodyByte(buf, 1) = 0 /\ BodyExt(buf) # 0
        \/ c = "4E" /\ Len(BodyOf(buf)) = 5 + BodyExt(buf)
                    /\ BodyByte(buf, 1) = 0 /\ BodyExt(buf) # 0}

\* C30: for every buffer on which CAPDU.Unmarshal succeeds, the body matched
\* exactly one of the seven cases, the returned byte count is the length of
\* the buffer and Marshal of the decoded CAPDU gives the buffer again; a
\* buffer whose body matches none of the cases makes Unmarshal fail.
C30_UnmarshalCases ==
    /\ (hist[1].step = "unmarshalled" /\ hist[1].u.err = Nil)
       => /\ Cardinality(BodyCases(hist[1].buf)) = 1
          /\ hist[1].u.n = Len(hist[1].buf)
    /\ hist[1].step = "marshalled"
       => (hist[1].m.err = Nil /\ hist[1].m.bytes = hist[1].buf)
    /\ (hist[1].step = "unmarshalled" /\ Len(hist[1].buf) >= 4
            /\ BodyCases(hist[1].buf) = {})
       => hist[1].u.err # Nil

-----------------------------------------------------------------------------
(* Properties of the Control TLV codec *)

\* A Control TLV with a reserved file id, an RFU maximum file size or an RFU
\* access condition.
HasRFU(t) ==
    \/ t.FileID \in {0, 57602, 57603, 16128, 16383, 65535}
    \/ t.MaximumFileSize \in 0..4
    \/ t.FileReadAccessCondition \in 1..127
    \/ t.FileWriteAccessCondition \in 1..127

\* C22: ControlTLV.Marshal fails whenever the file id is one of 0000h, E102h,
\* E103h, 3F00h, 3FFFh, FFFFh, or the maximum file size is in 0..4, or the read
\* or the write access condition is in 01h..7Fh.
C22_ControlTLVMarshalBad ==
    (hist[1].step = "marshalled" /\ HasRFU(hist[1].t))
    => hist[1].m.err # Nil

\* Marshal was refused for a Control TLV whose only RFU field is the write
\* access condition.
C22_Witness ==
    /\ hist[1].step = "marshalled"
    /\ hist[1].t = [T |-> 4, L |-> 6, FileID |-> defaultNDEFFileID,
                    MaximumFileSize |-> 255, FileReadAccessCondition |-> 0,
                    FileWriteAccessCondition |-> 127]
    /\ hist[1].m.err # Nil

\* A Control TLV that satisfies the Control TLV invariants.
ValidControlTLV(t) ==
    /\ t.T \in {TypeNDEFFileControlTLV, TypePropietaryFileControlTLV}
    /\ t.L = 6
    /\ ~HasRFU(t)

\* C24: for every Control TLV t with T 04h or 05h, L = 6 and no RFU field
\* value, Marshal gives exactly 8 bytes and Unmarshal of those bytes gives a
\* Control TLV equal to t.
C24_ControlTLVRoundTrip ==
    ValidControlTLV(hist[1].t)
    => /\ hist[1].step = "marshalled"
          => (hist[1].m.err = Nil /\ Len(hist[1].m.bytes) = 8)
       /\ hist[1].step = "unmarshalled"
          => (hist[1].u.err = Nil /\ hist[1].u.tlv = hist[1].t)

\* A proprietary-file Control TLV, read-only, came back from its 8 bytes.
C24_Witness ==
    /\ hist[1].step = "unmarshalled"
    /\ hist[1].t = [T |-> 5, L |-> 6, FileID |-> 1, MaximumFileSize |-> 65535,
                    FileReadAccessCondition |-> 0,
                    FileWriteAccessCondition |-> 255]
    /\ hist[1].m.bytes = << 5, 6, 0, 1, 255, 255, 0, 255 >>
    /\ hist[1].u.tlv = hist[1].t

-----------------------------------------------------------------------------
(* Properties of the RAPDU codec *)

\* C25: for every byte string s of at least 2 bytes, RAPDU Unmarshal(s)
\* succeeds and Marshal of the result is s.
C25_RAPDURoundTrip ==
    Len(hist[1].s) >= 2
    => /\ hist[1].step = "unmarshalled" => hist[1].u.err = Nil
       /\ hist[1].step = "marshalled" => hist[1].m = hist[1].s

\* A status word alone, and a body followed by a status word, came back.
C25_Witness ==
    /\ hist[1].step = "marshalled"
    /\ hist[1].s \in {<< 144, 0 >>, << 0, 255, 106, 144 >>}
    /\ hist[1].m = hist[1].s

-----------------------------------------------------------------------------
(* Properties of the Capability Container codec *)

\* The bytes of a stored TLV block are those of a Control TLV block.
IsControlBlock(b) == b[1] \in {TypeNDEFFileControlTLV, TypePropietaryFileControlTLV}

\* The Control TLV that the 8 bytes of a stored block stand for.
ControlTLVOfBlock(b) ==
    [T |-> b[1], L |-> b[2], FileID |-> b[3] * 256 + b[4],
     MaximumFileSize |-> b[5] * 256 + b[6],
     FileReadAccessCondition |-> b[7], FileWriteAccessCondition |-> b[8]]

\* The Control TLVs among the stored blocks, in their order.
RECURSIVE ControlTLVsOf(_)
ControlTLVsOf(blocks) ==
    IF blocks = << >> THEN << >>
    ELSE IF IsControlBlock(Head(blocks))
    THEN << ControlTLVOfBlock(Head(blocks)) >> \o ControlTLVsOf(Tail(blocks))
    ELSE ControlTLVsOf(Tail(blocks))

\* Unmarshal keeps every trailing Control TLV in its order and leaves out
\* every other trailing TLV.
KeepsControlTLVs ==
    (hist[1].step # "new" /\ hist[1].u.err = Nil)
    => hist[1].u.cc.TLVBlocks = ControlTLVsOf(hist[1].blocks)

\* C23: for every Capability Container byte string that Unmarshal accepts,
\* the parsed container holds every trailing Control TLV (T 04h or 05h) in its
\* original order and no trailing TLV with another T, Marshal succeeds, and
\* the bytes it gives are accepted by Unmarshal and give a container equal to
\* the first one.
C23_CCRoundTrip ==
    /\ KeepsControlTLVs
    /\ hist[1].step = "marshalled" => hist[1].m.err = Nil
    /\ hist[1].step = "reparsed"
       => (hist[1].r.err = Nil /\ hist[1].r.cc = hist[1].u.cc)

-----------------------------------------------------------------------------
(* Properties of the calls a Device makes on its driver *)

\* The calls of a procedure that has not returned: Initialize first and once,
\* then only TransceiveBytes, one per command sent.
DriverOpen(sn) ==
    /\ Len(sn.drv) = 1 + Len(sn.sent)
    /\ sn.drv[1] = "initialize"
    /\ \A k \in 2..Len(sn.drv) : sn.drv[k] = "transceive"

\* The calls of a procedure that returned: Initialize first and once, Close
\* last and once, between them only TransceiveBytes, one per command sent.
DriverClosed(sn) ==
    /\ Len(sn.drv) = 2 + Len(sn.sent)
    /\ sn.drv[1] = "initialize"
    /\ sn.drv[Len(sn.drv)] = "close"
    /\ \A k \in 2..(Len(sn.drv) - 1) : sn.drv[k] = "transceive"

\* C26: in every Read, Update or Format, Driver.Initialize() is called exactly
\* once and before any TransceiveBytes, Driver.Close() exactly once and after
\* the last TransceiveBytes on every way out, with or without error, and
\* nothing is transceived when Initialize() fails.
C26_DriverBracket ==
    /\ ses[1].pc \notin {"idle", "done"} => DriverOpen(ses[1])
    /\ ses[1].pc = "done" => DriverClosed(ses[1])
    /\ (ses[1].pc = "done" /\ ses[1].err = ErrInitialize)
       => ses[1].drv = << "initialize", "close" >>

\* An Update that wrote, one that a tag refused at its second command, and a
\* procedure whose driver did not initialize have returned.
C26_Witness ==
    /\ ses[1].pc = "done"
    /\ \/ ses[1].op = "update" /\ ses[1].err = Nil /\ Len(ses[1].sent) >= 8
       \/ ses[1].err # Nil /\ Len(ses[1].sent) = 2
    /\ \E i \in 1..Len(hist) : hist[i].err = ErrInitialize

-----------------------------------------------------------------------------
(* Properties of the commands of Format, Detect and Update *)

\* The places in the log of a procedure where an UPDATE_BINARY was sent.
UpdatesSent(sn) == {k \in 1..Len(sn.sent) : IsUpdateBinary(sn.sent[k])}

\* C27: a Format that succeeds sends exactly one UPDATE_BINARY, of 00 00 at
\* offset 0, and changes only bytes 0 and 1 of the NDEF file: every byte from
\* offset 2 on keeps its value.
C27_FormatFrame ==
    (ses[1].pc = "done" /\ ses[1].op = "format" /\ ses[1].err = Nil)
    => /\ Cardinality(UpdatesSent(ses[1])) = 1
       /\ \A k \in UpdatesSent(ses[1]) :
             /\ ses[1].sent[k].capdu.Data = << 0, 0 >>
             /\ Offset(ses[1].sent[k]) = 0
       /\ Len(tag.file) = Len(ses[1].f0)
       /\ Slice(tag.file, 0, 2) = << 0, 0 >>
       /\ \A k \in 3..Len(tag.file) : tag.file[k] = ses[1].f0[k]

\* A tag that held a message of 3 bytes was formatted.
C27_Witness ==
    /\ ses[1].pc = "done" /\ ses[1].op = "format" /\ ses[1].err = Nil
    /\ ses[1].f0 = << 0, 3 >> \o Msg(3, 2)
    /\ tag.file = << 0, 0 >> \o Msg(3, 2)

-----------------------------------------------------------------------------
(* Properties of the commands of ndefDetectProcedure *)

\* The command sent k-th by Device 1 in its current procedure was answered
\* with Command completed.
Completed(k) ==
    /\ ses[1].sent[k].err = Nil
    /\ CommandCompleted(ses[1].sent[k].rapdu)

\* The id of the NDEF file in the Capability Container bytes the third
\* command was answered with.
FileIDRead ==
    BytesToUint16(<< ses[1].sent[3].rapdu.ResponseBody[10],
                     ses[1].sent[3].rapdu.ResponseBody[11] >>)

\* What ndefDetectProcedure sends k-th.
DetectCommand(k) ==
    CASE k = 1 -> NewNDEFTagApplicationSelectAPDU
      [] k = 2 -> NewSelectAPDU(CCID)
      [] k = 3 -> NewReadBinaryAPDU(0, 15)
      [] k = 4 -> NewSelectAPDU(FileIDRead)
      [] k = 5 -> NewReadBinaryAPDU(0, 2)

\* C28: the commands of Detect go out in the order NDEF application SELECT,
\* SELECT E103h, READ_BINARY of the Capability Container, SELECT of the file
\* id read from it, READ_BINARY(0, 2), each only after the one before it was
\* answered with Command completed; a command that fails is the last one
\* sent and the procedure returns its error; File not found (6A82h) in
\* answer to the SELECT of the Capability Container returns the error that
\* names file e103h.
C28_DetectOrder ==
    /\ \A k \in 1..Len(ses[1].sent) :
          /\ k <= 5 => ses[1].sent[k].capdu = DetectCommand(k)
          /\ k > 1 => Completed(k - 1)
          /\ ~Completed(k) => /\ k = Len(ses[1].sent)
                              /\ ses[1].pc = "done"
                              /\ ses[1].err # Nil
                              /\ ses[1].err = ses[1].sent[k].err
    /\ (/\ Len(ses[1].sent) = 2
        /\ ses[1].sent[2].rapdu = [ResponseBody |-> << >>, SW1 |-> 106, SW2 |-> 130])
       => /\ ses[1].pc = "done"
          /\ ses[1].err = "Commander.Select: File e103h not found"

\* C28, its case: the SELECT of the Capability Container was answered with
\* 6A82h and Detect stopped there.
C28_Witness ==
    /\ tag.name = "dummy" /\ tag.ReceiveBytesPos = 2
    /\ Len(ses[1].sent) = 2
    /\ ses[1].sent[1].capdu = NewNDEFTagApplicationSelectAPDU
    /\ ses[1].sent[2].capdu = NewSelectAPDU(CCID)
    /\ ses[1].sent[2].rapdu.SW1 = 106 /\ ses[1].sent[2].rapdu.SW2 = 130
    /\ ses[1].pc = "done"
    /\ ses[1].err = "Commander.Select: File e103h not found"


-----------------------------------------------------------------------------
(* Properties of the payload writes of Update *)

\* Device 1 has returned from an Update without error.
UpdateReturnedNil ==
    /\ ses[1].pc = "done" /\ ses[1].op = "update" /\ ses[1].err = Nil

UpdateMLc == ses[1].st.MaxUpdateBinaryLen

\* The number of payload writes: n bytes in commands of at most mlc bytes.
PayloadWrites(n, mlc) == (n + mlc - 1) \div mlc

\* The k-th payload UPDATE_BINARY (from 0) of the Update of Device 1: it
\* follows the five commands of Detect and the write of NLEN = 0.
PayloadWrite(k) == ses[1].sent[7 + k].capdu

PayloadEnd(k) ==
    IF (k + 1) * UpdateMLc < Len(ses[1].msg) THEN (k + 1) * UpdateMLc
    ELSE Len(ses[1].msg)

\* The payload writes whose bytes go to place i of the message.
WritesCovering(i) ==
    {k \in 0..(PayloadWrites(Len(ses[1].msg), UpdateMLc) - 1) :
        /\ BytesToUint16(<< PayloadWrite(k).P1, PayloadWrite(k).P2 >>) - 2 <= i
        /\ i < BytesToUint16(<< PayloadWrite(k).P1, PayloadWrite(k).P2 >>) - 2
               + Len(PayloadWrite(k).Data)}

\* C29: an Update of n bytes makes ceil(n/mlc) payload UPDATE_BINARY
\* commands, between the write of NLEN = 0 and the write of NLEN = n; the
\* k-th (from 0) carries the message bytes [k*mlc, min((k+1)*mlc, n)) at
\* offset 2+k*mlc; every chunk is non-empty and at most mlc bytes long, and
\* every byte of the message is in exactly one chunk.
C29_UpdateChunks ==
    UpdateReturnedNil =>
        /\ UpdateMLc >= 1
        /\ Len(ses[1].sent) = 7 + PayloadWrites(Len(ses[1].msg), UpdateMLc)
        /\ ses[1].sent[6].capdu = NewUpdateBinaryAPDU(<< 0, 0 >>, 0)
        /\ ses[1].sent[Len(ses[1].sent)].capdu =
               NewUpdateBinaryAPDU(Uint16ToBytes(Len(ses[1].msg)), 0)
        /\ \A k \in 0..(PayloadWrites(Len(ses[1].msg), UpdateMLc) - 1) :
              /\ PayloadWrite(k).INS = 214
              /\ PayloadWrite(k).Data =
                     [j \in 1..(PayloadEnd(k) - k * UpdateMLc) |->
                         ses[1].msg[k * UpdateMLc + j]]
              /\ BytesToUint16(<< PayloadWrite(k).P1, PayloadWrite(k).P2 >>)
                     = 2 + k * UpdateMLc
              /\ Len(PayloadWrite(k).Data) >= 1
              /\ Len(PayloadWrite(k).Data) <= UpdateMLc
        /\ \A i \in 0..(Len(ses[1].msg) - 1) : Cardinality(WritesCovering(i)) = 1

\* C29, its case: a message of 3 bytes written to a tag of MLc 2 in two
\* payload commands, of 2 bytes at offset 2 and of 1 byte at offset 4.
C29_Witness ==
    /\ UpdateReturnedNil
    /\ UpdateMLc = SmallMLc
    /\ ses[1].msg = Msg(3, 1)
    /\ Len(ses[1].sent) = 9
    /\ PayloadWrite(0) = NewUpdateBinaryAPDU(<< Msg(3, 1)[1], Msg(3, 1)[2] >>, 2)
    /\ PayloadWrite(1) = NewUpdateBinaryAPDU(<< Msg(3, 1)[3] >>, 4)

-----------------------------------------------------------------------------
(* Properties of the length a Capability Container declares *)

\* The CCLEN field of the stored file.
StoredCCLEN == BytesToUint16(<< hist[1].s[1], hist[1].s[2] >>)

\* The offsets in the stored file at which the NDEF File Control TLV or one
\* of the blocks after it ends.
BlockEnds ==
    {15 + Len(Flatten(SubSeq(hist[1].blocks, 1, k))) : k \in 0..Len(hist[1].blocks)}

\* C31: CapabilityContainer.Unmarshal returns no error only if the number of
\* bytes it read is the CCLEN of the file; it returns an error when the file
\* has fewer than CCLEN bytes, and when no TLV block of the file ends at
\* CCLEN (the blocks end before it or the last one goes beyond it).
C31_UnmarshalCCLEN ==
    hist[1].step # "new"
    => /\ hist[1].u.err = Nil
          => (hist[1].u.n = StoredCCLEN /\ hist[1].u.cc.CCLEN = StoredCCLEN)
       /\ Len(hist[1].s) < StoredCCLEN => hist[1].u.err # Nil
       /\ StoredCCLEN \notin BlockEnds => hist[1].u.err # Nil

\* C31, its case: a proprietary Control TLV that ends one byte beyond CCLEN;
\* Unmarshal read 23 bytes of a file that declares 22 and returned an error.
C31_Witness ==
    /\ hist[1].step = "unmarshalled"
    /\ hist[1].blocks = << LongCCExtra >>
    /\ StoredCCLEN = 22
    /\ hist[1].u.n = 23
    /\ hist[1].u.err = "CapabilityContainer.Unmarshal: expected cclen bytes but parsed another number"

\* C32: whenever CapabilityContainer.Marshal returns no error, the CCLEN it
\* wrote is the length of the bytes it returned, and CapabilityContainer
\* .Unmarshal accepts those bytes.
C32_MarshalCCLEN ==
    /\ (hist[1].step \in {"marshalled", "reparsed"} /\ hist[1].m.err = Nil)
       => /\ BytesToUint16(<< hist[1].m.bytes[1], hist[1].m.bytes[2] >>)
                 = Len(hist[1].m.bytes)
          /\ hist[1].u.cc.CCLEN = Len(hist[1].m.bytes)
    /\ hist[1].step = "reparsed" => hist[1].r.err = Nil

-----------------------------------------------------------------------------
(* Properties of the length field of a TLV block *)

\* C33: a TLV whose length is FFFFh, written in the 3-byte form, is rejected
\* by TLV.Marshal and by TLV.Unmarshal.
C33_RFULength ==
    /\ (hist[1].step = "marshalled" /\ hist[1].L = 65535)
       => hist[1].m.err # Nil
    /\ (hist[1].step = "unmarshalled" /\ hist[1].L = 65535 /\ hist[1].long)
       => hist[1].u.err # Nil

-----------------------------------------------------------------------------
(* Properties of the 16-bit arithmetic of Read and Update *)

\* C34: after the checks of Detect passed (maximum file size >= 5, NLEN or
\* the message length <= maximum file size - 2), with MLe and MLc in
\* 1..FFFFh, no 16-bit value of Read and Update wraps around: the maximum
\* file size - 2, the length in 16 bits, the running total and the offset
\* 2 + total are what they are without the wrap, within 0..FFFFh.
C34_NoWrap ==
    hist[1].step \in {"loop", "done"}
    => /\ hist[1].max >= 5
       /\ hist[1].limit = hist[1].max - 2
       /\ hist[1].n <= hist[1].max - 2
       /\ hist[1].len = hist[1].n
       /\ hist[1].total = hist[1].sum
       /\ hist[1].offset = hist[1].at
       /\ hist[1].total <= hist[1].len
       /\ {hist[1].limit, hist[1].len, hist[1].sum, hist[1].at} \subseteq 0..65535

\* C34, its case: the last round of an Update of FFFDh bytes, the longest
\* message of the largest file, written 8000h bytes at a time: the offset is
\* 8002h, the total reaches FFFDh.
C34_Witness ==
    /\ hist[1].step = "done"
    /\ hist[1].op = "update"
    /\ hist[1].max = 65535 /\ hist[1].n = 65533 /\ hist[1].lim = 32768
    /\ hist[1].offset = 32770
    /\ hist[1].chunk = 32765
    /\ hist[1].total = 65533

-----------------------------------------------------------------------------
(* Properties of the write access a tag declares *)

\* Detect succeeded in the procedure of Device 1: its five commands were
\* answered with Command completed and a sixth was sent or none was needed.
DetectSucceeded ==
    /\ Len(ses[1].sent) >= 5
    /\ \A k \in 1..5 : Completed(k)

\* The message of the Update of Device 1 has more bytes than the maximum
\* file size the tag declares leaves after the two of NLEN.
MessageTooLarge ==
    ses[1].op = "update" /\ Len(ses[1].msg) > DeclaredMaxFileSize - 2

\* C35: Update and Format send an UPDATE_BINARY only when Detect succeeded,
\* the write access byte of the NDEF File Control TLV is 00h and, for
\* Update, the message fits in the maximum file size - 2; with a write access
\* byte of FFh or of 80h..FEh, or a message too large, they return with no
\* UPDATE_BINARY sent and the NDEF file as it was.
C35_WriteAccess ==
    ses[1].op \in {"update", "format"}
    => /\ UpdatesSent(ses[1]) # {}
          => /\ DetectSucceeded
             /\ DeclaredWriteAccess = 0
             /\ ~MessageTooLarge
       /\ (ses[1].pc = "done" /\ (DeclaredWriteAccess >= 128 \/ MessageTooLarge))
          => /\ UpdatesSent(ses[1]) = {}
             /\ tag.file = ses[1].f0

-----------------------------------------------------------------------------
(* Properties of what the commands change in a Tag *)

\* The last command was answered, with Command completed.
EvCompleted == ~Ev.panic /\ CommandCompleted(Ev.rapdu)

\* C36: of the CAPDUs an initialised Tag handles, only a SELECT by id
\* answered with Command completed changes the selected file, and only an
\* UPDATE_BINARY answered with Command completed changes the bytes of the
\* NDEF file; an application select, a READ_BINARY, a command with an
\* unknown INS and every command answered with an error status word leave
\* both as they were.
C36_CommandFrame ==
    (Ev.op = "command" /\ Len(Ev.before.file) >= 2)
    => /\ tag.selectedFileID # Ev.before.selectedFileID
          => /\ Ev.capdu.INS = INSSelect /\ Ev.capdu.P1 = 0 /\ Ev.capdu.P2 = 12
             /\ EvCompleted
       /\ tag.file # Ev.before.file
          => (Ev.capdu.INS = INSUpdate /\ EvCompleted)
       /\ (\/ Ev.capdu.INS = INSSelect /\ Ev.capdu.P1 = 4
           \/ Ev.capdu.INS = INSRead
           \/ Ev.capdu.INS \notin {INSSelect, INSRead, INSUpdate}
           \/ ~EvCompleted)
          => tag = Ev.before

\* C36, its case: the application select, received as third operation while
\* the NDEF file was selected, was answered with Command completed and the
\* NDEF file is still selected.
C36_Witness ==
    /\ Ev.n = 3
    /\ Commanded(INSSelect) /\ Ev.capdu = NewNDEFTagApplicationSelectAPDU
    /\ EvCompleted
    /\ Ev.before.selectedFileID = defaultNDEFFileID
    /\ tag = Ev.before

\* C37: a Tag that was initialised or given a message stays initialised
\* whatever it is sent: its NDEF file keeps at least 2 bytes, no command
\* makes it shorter, and no CAPDU is answered with InactiveState.
C37_StaysActive ==
    Len(Ev.before.file) >= 2
    => /\ Len(tag.file) >= 2
       /\ Ev.op = "command"
          => /\ Len(tag.file) >= Len(Ev.before.file)
             /\ Ev.rapdu # RAPDUInactiveState

\* C37, its case: one byte written at the start of the file of an
\* initialised tag, as third operation; the file still has its 2 bytes.
C37_Witness ==
    /\ Ev.n = 3
    /\ Commanded(INSUpdate) /\ EvCompleted
    /\ Ev.before.file = << 0, 0 >>
    /\ Ev.capdu.Data = << 9 >> /\ EvOffset = 0
    /\ tag.file = << 9, 0 >>

\* C38: whatever CAPDUs a Tag is sent, the length of its NDEF file is never
\* more than the maximum file size (FFFEh) its Capability Container declares.
C38_FileWithinMax ==
    hist[1].len <= DeclaredMaxFileSize

-----------------------------------------------------------------------------
(* Properties of a Device on a transport that answers anything *)

\* C39: when Read returns a message, the bytes it assembled are NLEN bytes:
\* a READ_BINARY answered with fewer or more body bytes than asked for gives
\* no message made of another number of bytes.
C39_ReadLength ==
    (ses[1].pc = "done" /\ ses[1].op = "read" /\ ses[1].err = Nil)
    => /\ Len(ses[1].buffer) = ses[1].st.NLEN
       /\ Len(ses[1].out) = ses[1].st.NLEN

\* C40: whatever the transport answers, Read, Update and Format return a
\* result or an error and do not crash; a Command completed answer to the
\* READ_BINARY of NLEN with fewer than 2 body bytes makes the procedure
\* return an error.
C40_NoCrash ==
    /\ ses[1].pc = "done" => ses[1].err # Panic
    /\ (/\ Len(ses[1].sent) = 5
        /\ \A k \in 1..5 : Completed(k)
        /\ Len(ses[1].sent[5].rapdu.ResponseBody) < 2)
       => (ses[1].pc = "done" /\ ses[1].err \notin {Nil, Panic})
=============================================================================
